---- MODULE Spec2Model ----
(***************************************************************************)
(* A model of the .vox parser of github.com/paulhankin/vox: the latched    *)
(* byte reader, the chunk decoders, the ordering state machine of          *)
(* parseMainChunks and the scene-graph assembly of buildScene.             *)
(*                                                                         *)
(* Bytes are the numbers 0..255, byte slices and strings are sequences of  *)
(* bytes, Go maps are functions, a Go pointer to a scene node is the id    *)
(* under which the node was recorded.  Go slices are 0-based, sequences    *)
(* here are 1-based: element i of a slice is element i+1 of the sequence.  *)
(***************************************************************************)
EXTENDS Integers, Sequences, FiniteSets, TLC

\* The nil error.
Nil == "nil"

\* A pointer is a sequence: <<>> is the nil pointer, <<x>> points to x.  A
\* pointer to a scene node is <<id>>, id the key of the node in sceneIDs.
NilPtr == <<>>

\* io.EOF and io.ErrUnexpectedEOF, the two results of a short io.ReadFull.
EOF == "EOF"

ErrUnexpectedEOF == "unexpected EOF"

\* make([]byte, n) with n < 0 panics; the panic unwinds the whole of Parse.
PanicMakeslice == "panic: makeslice: len out of range"

\* buildMain indexing mats[i] past len(mats) panics.
PanicIndex == "panic: index out of range"

IsPanic(e) == e \in {PanicMakeslice, PanicIndex}

\* make([]byte, n): n zero bytes.
Zeros(n) == [i \in 1..n |-> 0]

(***************************************************************************)
(* voxReader: a reader with a latched error.  buf is the whole input, pos  *)
(* the number of bytes consumed, err the latched error.                    *)
(***************************************************************************)
NewReader(b) == [buf |-> b, pos |-> 0, err |-> Nil]

\* ReadBytes as a mutant would do it: the latch is not honoured, a read
\* after an error reads on.
ReadBytesNoLatch(vr, n) ==
    LET avail == Len(vr.buf) - vr.pos IN
    IF n < 0 THEN [vr |-> [vr EXCEPT !.err = PanicMakeslice], v |-> <<>>]
    ELSE IF avail >= n
    THEN [vr |-> [vr EXCEPT !.pos = @ + n, !.err = Nil],
          v |-> SubSeq(vr.buf, vr.pos + 1, vr.pos + n)]
    ELSE [vr |-> [vr EXCEPT !.pos = Len(vr.buf),
                            !.err = IF avail = 0 THEN EOF ELSE ErrUnexpectedEOF],
          v |-> SubSeq(vr.buf, vr.pos + 1, Len(vr.buf)) \o Zeros(n - avail)]

\* ReadBytes reads n bytes: the reader after the call and the slice returned.
\* io.ReadFull returns io.EOF when no byte could be read, ErrUnexpectedEOF
\* after a partial read (the bytes it did read stay in the slice), and nil
\* for n = 0.
ReadBytes(vr, n) ==
    LET avail == Len(vr.buf) - vr.pos IN
    IF n < 0 THEN [vr |-> [vr EXCEPT !.err = PanicMakeslice], v |-> <<>>]
    ELSE IF vr.err # Nil THEN [vr |-> vr, v |-> Zeros(n)]
    ELSE IF avail >= n
    THEN [vr |-> [vr EXCEPT !.pos = @ + n],
          v |-> SubSeq(vr.buf, vr.pos + 1, vr.pos + n)]
    ELSE [vr |-> [vr EXCEPT !.pos = Len(vr.buf),
                            !.err = IF avail = 0 THEN EOF ELSE ErrUnexpectedEOF],
          v |-> SubSeq(vr.buf, vr.pos + 1, Len(vr.buf)) \o Zeros(n - avail)]

ReadUint8(vr) ==
    LET Byte(r) == [vr |-> r.vr, v |-> r.v[1]] IN Byte(ReadBytes(vr, 1))

\* int32(uint32(b[0]) + uint32(b[1])<<8 + uint32(b[2])<<16 + uint32(b[3])<<24)
Int32OfBytes(b) ==
    b[1] + b[2] * 256 + b[3] * 65536
      + (IF b[4] >= 128 THEN b[4] - 256 ELSE b[4]) * 16777216

ReadInt32(vr) ==
    LET Int32(r) == [vr |-> r.vr, v |-> Int32OfBytes(r.v)] IN Int32(ReadBytes(vr, 4))

\* RequireEOF as a mutant would do it: the check is dropped.
RequireEOFSkipped(vr) == vr

\* RequireEOF as a mutant would do it: the early return on a pending error
\* is dropped, so a pending io.EOF is cleared.
RequireEOFClearsPending(vr) ==
    LET After(r) ==
            IF r.err = Nil
            THEN [r EXCEPT !.err = "expected EOF, but found at least one more byte"]
            ELSE IF r.err = EOF THEN [r EXCEPT !.err = Nil]
            ELSE r
    IN  After(ReadUint8(vr).vr)

\* RequireEOF: with no error pending, one more byte is read; reading it must
\* fail with io.EOF, which is then cleared.
RequireEOF(vr) ==
    LET After(r) ==
            IF r.err = Nil
            THEN [r EXCEPT !.err = "expected EOF, but found at least one more byte"]
            ELSE IF r.err = EOF THEN [r EXCEPT !.err = Nil]
            ELSE r
    IN  IF vr.err # Nil THEN vr ELSE After(ReadUint8(vr).vr)

ReadString(vr) ==
    LET Bytes(n) == ReadBytes(n.vr, n.v) IN Bytes(ReadInt32(vr))

(***************************************************************************)
(* dict: d the key/value map, read the keys asked for, err the latched     *)
(* error.                                                                  *)
(***************************************************************************)
EmptyMap == [k \in {} |-> 0]

MapPut(m, k, v) == [x \in DOMAIN m \cup {k} |-> IF x = k THEN v ELSE m[x]]

RECURSIVE ReadDictLoop(_, _, _)
\* for i := 0; i < n; i++ { key := ReadString(); val := ReadString(); d[key] = val }
\* The loop does not look at the error of the reader: with or without one,
\* the pair is put and the next turn is taken.
ReadDictLoop(vr, n, d) ==
    IF n <= 0 THEN [vr |-> vr, v |-> d]
    ELSE LET Put(key, val) ==
                 IF val.vr.err = Nil
                 THEN ReadDictLoop(val.vr, n - 1, MapPut(d, key.v, val.v))
                 ELSE ReadDictLoop(val.vr, n - 1, MapPut(d, key.v, val.v))
             Val(key) == Put(key, ReadString(key.vr))
         IN  Val(ReadString(vr))

\* n := vr.ReadInt32(); the loop; return &dict{d: d, err: vr.Error()}
ReadDict(vr) ==
    LET Dict(l) == [vr |-> l.vr, v |-> [d |-> l.v, read |-> {}, err |-> l.vr.err]]
        Loop(n) == Dict(ReadDictLoop(n.vr, n.v, EmptyMap))
    IN  Loop(ReadInt32(vr))

\* AssertNoUnreadFields: the error, or Nil.
AssertNoUnreadFields(d) ==
    IF \E k \in DOMAIN d.d : k \notin d.read
    THEN "unknown field[s] in dict"
    ELSE Nil

IsDigit(c) == c >= 48 /\ c <= 57

RECURSIVE DigitsValue(_, _)
\* The number written by the decimal digits s, after the digits valued acc.
DigitsValue(s, acc) ==
    IF s = <<>> THEN acc ELSE DigitsValue(Tail(s), acc * 10 + (Head(s) - 48))

AllDigits(s) == s # <<>> /\ \A i \in 1..Len(s) : IsDigit(s[i])

\* The position of the first '.' of s, or 0.
DotIndex(s) ==
    IF \E i \in 1..Len(s) : s[i] = 46
    THEN CHOOSE i \in 1..Len(s) : s[i] = 46 /\ \A j \in 1..(i - 1) : s[j] # 46
    ELSE 0

\* The fraction digits f in thousandths (digits past the third are dropped).
FracMilli(f) ==
    LET f3 == SubSeq(f \o <<48, 48, 48>>, 1, 3) IN DigitsValue(f3, 0)

\* strconv.ParseFloat on the plain decimals [+-]digits[.digits]: ok and the
\* value in thousandths (a float is kept as an integer number of
\* thousandths).  Any other string is a syntax error here.
ParseFloat(s) ==
    LET signed == s # <<>> /\ s[1] \in {43, 45}
        neg == s # <<>> /\ s[1] = 45
        body == IF signed THEN Tail(s) ELSE s
        dot == DotIndex(body)
        ip == IF dot = 0 THEN body ELSE SubSeq(body, 1, dot - 1)
        fp == IF dot = 0 THEN <<>> ELSE SubSeq(body, dot + 1, Len(body))
        ok == /\ Len(ip) + Len(fp) > 0
              /\ \A i \in 1..Len(ip) : IsDigit(ip[i])
              /\ \A i \in 1..Len(fp) : IsDigit(fp[i])
        mag == DigitsValue(ip, 0) * 1000 + FracMilli(fp)
    IN  [ok |-> ok, v |-> IF ok THEN (IF neg THEN 0 - mag ELSE mag) ELSE 0]

\* ReadFloat: the dict after the call and the value (in thousandths).
ReadFloat(d, name, def) ==
    LET d1 == [d EXCEPT !.read = @ \cup {name}]
        Parsed(f) ==
            IF f.ok THEN [d |-> d1, v |-> f.v]
            ELSE [d |-> [d1 EXCEPT !.err = "error parsing float"], v |-> f.v]
    IN  IF d1.err # Nil THEN [d |-> d1, v |-> def]
        ELSE IF name \notin DOMAIN d1.d THEN [d |-> d1, v |-> def]
        ELSE Parsed(ParseFloat(d1.d[name]))

ReadBool(d, name, def) ==
    LET Bool(r) == [d |-> r.d, v |-> r.v # 0] IN
    Bool(ReadFloat(d, name, IF def THEN 1000 ELSE 0))

\* dict.ReadString (the value is a byte string).
DictReadString(d, name, def) ==
    LET d1 == [d EXCEPT !.read = @ \cup {name}] IN
    IF d1.err # Nil THEN [d |-> d1, v |-> def]
    ELSE IF name \notin DOMAIN d1.d THEN [d |-> d1, v |-> def]
    ELSE [d |-> d1, v |-> d1.d[name]]

\* strconv.Atoi on [+-]digits.
ParseInt(s) ==
    LET signed == s # <<>> /\ s[1] \in {43, 45}
        neg == s # <<>> /\ s[1] = 45
        body == IF signed THEN Tail(s) ELSE s
        ok == AllDigits(body)
    IN  [ok |-> ok,
         v |-> IF ok THEN (IF neg THEN 0 - DigitsValue(body, 0) ELSE DigitsValue(body, 0))
               ELSE 0]

Matrix3x3Identity == 4

\* ReadMatrix3x3: the rotation code written in decimal under name.
ReadMatrix3x3(d, name, def) ==
    LET d1 == [d EXCEPT !.read = @ \cup {name}]
        Parsed(n) ==
            IF n.ok /\ n.v >= 0 /\ n.v <= 255 THEN [d |-> d1, v |-> n.v]
            ELSE [d |-> [d1 EXCEPT !.err = "error parsing matrix"], v |-> def]
    IN  IF d1.err # Nil THEN [d |-> d1, v |-> def]
        ELSE IF name \notin DOMAIN d1.d THEN [d |-> d1, v |-> def]
        ELSE Parsed(ParseInt(d1.d[name]))

RECURSIVE SplitOn(_, _, _)
\* strings.Split(s, sep) for the one-byte separator sep; cur is the field
\* being read.
SplitOn(s, sep, cur) ==
    IF s = <<>> THEN <<cur>>
    ELSE IF Head(s) = sep THEN <<cur>> \o SplitOn(Tail(s), sep, <<>>)
    ELSE SplitOn(Tail(s), sep, Append(cur, Head(s)))

\* Read3xInt32: three decimal integers joined by ','.
Read3xInt32(d, name, def) ==
    LET d1 == [d EXCEPT !.read = @ \cup {name}] IN
    IF d1.err # Nil THEN [d |-> d1, v |-> def]
    ELSE IF name \notin DOMAIN d1.d THEN [d |-> d1, v |-> def]
    ELSE LET parts == SplitOn(d1.d[name], 44, <<>>)
             ok == Len(parts) = 3 /\ \A i \in 1..3 : ParseInt(parts[i]).ok
         IN  IF ok THEN [d |-> d1, v |-> [i \in 1..3 |-> ParseInt(parts[i]).v]]
             ELSE [d |-> [d1 EXCEPT !.err = "error parsing 3 ints"], v |-> def]

\* One read of the reader: ReadInt32 or ReadDict.
ReadField(vr, kind) == IF kind = "Int32" THEN ReadInt32(vr) ELSE ReadDict(vr)

RECURSIVE ReadFields(_, _, _)
\* The reads of the kinds, one after the other in this order: the reader
\* after the last one and the values read, after the values vals.  A read
\* is followed by the next one with or without an error of the reader.
ReadFields(vr, kinds, vals) ==
    IF kinds = <<>> THEN [vr |-> vr, v |-> vals]
    ELSE LET Rest(r) ==
                 IF r.vr.err = Nil
                 THEN ReadFields(r.vr, Tail(kinds), Append(vals, r.v))
                 ELSE ReadFields(r.vr, Tail(kinds), Append(vals, r.v))
         IN  Rest(ReadField(vr, Head(kinds)))

\* One read of the dict d: f is the name, the kind of the read and the
\* default.
DictField(d, f) ==
    IF f[2] = "String" THEN DictReadString(d, f[1], f[3])
    ELSE IF f[2] = "Bool" THEN ReadBool(d, f[1], f[3])
    ELSE IF f[2] = "Float" THEN ReadFloat(d, f[1], f[3])
    ELSE IF f[2] = "Matrix3x3" THEN ReadMatrix3x3(d, f[1], f[3])
    ELSE Read3xInt32(d, f[1], f[3])

RECURSIVE DictFields(_, _, _)
\* The reads fs of the dict d, one after the other in this order: the dict
\* after the last one and the values read, after the values vals.  A read
\* is followed by the next one with or without an error of the dict.
DictFields(d, fs, vals) ==
    IF fs = <<>> THEN [d |-> d, v |-> vals]
    ELSE LET Rest(r) ==
                 IF r.d.err = Nil
                 THEN DictFields(r.d, Tail(fs), Append(vals, r.v))
                 ELSE DictFields(r.d, Tail(fs), Append(vals, r.v))
         IN  Rest(DictField(d, Head(fs)))

(***************************************************************************)
(* The strings of the format, as bytes.                                    *)
(***************************************************************************)
TagMAIN == <<77, 65, 73, 78>>

TagPACK == <<80, 65, 67, 75>>

TagSIZE == <<83, 73, 90, 69>>

TagXYZI == <<88, 89, 90, 73>>

TagRGBA == <<82, 71, 66, 65>>

TagnTRN == <<110, 84, 82, 78>>

TagnGRP == <<110, 71, 82, 80>>

TagnSHP == <<110, 83, 72, 80>>

TagLAYR == <<76, 65, 89, 82>>

TagMATL == <<77, 65, 84, 76>>

\* "rOBJ", the one tag ignoredChunks holds from the start.
TagrOBJ == <<114, 79, 66, 74>>

\* "_name"
KeyName == <<95, 110, 97, 109, 101>>

\* "_hidden"
KeyHidden == <<95, 104, 105, 100, 100, 101, 110>>

\* "_r"
KeyR == <<95, 114>>

\* "_t"
KeyT == <<95, 116>>

\* "_type"
KeyType == <<95, 116, 121, 112, 101>>

\* "_weight"
KeyWeight == <<95, 119, 101, 105, 103, 104, 116>>

\* "_rough"
KeyRough == <<95, 114, 111, 117, 103, 104>>

\* "_spec"
KeySpec == <<95, 115, 112, 101, 99>>

\* "_ior"
KeyIor == <<95, 105, 111, 114>>

\* "_att"
KeyAtt == <<95, 97, 116, 116>>

\* "_flux"
KeyFlux == <<95, 102, 108, 117, 120>>

\* "_plastic"
KeyPlastic == <<95, 112, 108, 97, 115, 116, 105, 99>>

\* "_ldr"
KeyLdr == <<95, 108, 100, 114>>

\* "_diffuse"
StrDiffuse == <<95, 100, 105, 102, 102, 117, 115, 101>>

\* "_metal"
StrMetal == <<95, 109, 101, 116, 97, 108>>

\* "_glass"
StrGlass == <<95, 103, 108, 97, 115, 115>>

\* "_emit"
StrEmit == <<95, 101, 109, 105, 116>>

\* "<missing>"
StrMissing == <<60, 109, 105, 115, 115, 105, 110, 103, 62>>

(***************************************************************************)
(* The chunk decoders.                                                     *)
(***************************************************************************)
parsePackChunk(c) ==
    LET Pack(n) == [n |-> n.v, err |-> RequireEOF(n.vr).err] IN
    Pack(ReadInt32(NewReader(c)))

\* x, y and z are read, in this order.
parseSizeChunk(c) ==
    LET Size(f) == [size |-> <<f.v[1], f.v[2], f.v[3]>>, err |-> RequireEOF(f.vr).err] IN
    Size(ReadFields(NewReader(c), <<"Int32", "Int32", "Int32">>, <<>>))

RECURSIVE XYZILoop(_, _, _)
\* for i := 0; i < N; i++ { x, y, z, idx := four ReadUint8; v = append(v, ...) }
XYZILoop(vr, n, v) ==
    IF n <= 0 THEN [vr |-> vr, v |-> v]
    ELSE LET Voxel(x, y, z, idx) ==
                 XYZILoop(idx.vr, n - 1,
                          Append(v, [X |-> x.v, Y |-> y.v, Z |-> z.v,
                                     ColorIndex |-> idx.v]))
             Idx(x, y, z) == Voxel(x, y, z, ReadUint8(z.vr))
             Z(x, y) == Idx(x, y, ReadUint8(y.vr))
             Y(x) == Z(x, ReadUint8(x.vr))
         IN  Y(ReadUint8(vr))

parseXYZIChunk(c) ==
    LET Voxels(l) == [v |-> l.v, err |-> RequireEOF(l.vr).err]
        Loop(N) == Voxels(XYZILoop(N.vr, N.v, <<>>))
    IN  Loop(ReadInt32(NewReader(c)))

\* The number of palette entries parseRGBAChunk makes.
PaletteLen == 256

\* n calls of ReadUint8 in a row: the reader after them and the n bytes
\* returned.  The first call that finds no byte left latches io.EOF, and it
\* and the calls after it return 0.
ReadUint8s(vr, n) ==
    LET avail == Len(vr.buf) - vr.pos IN
    IF vr.err # Nil THEN [vr |-> vr, v |-> Zeros(n)]
    ELSE IF avail >= n
    THEN [vr |-> [vr EXCEPT !.pos = @ + n],
          v |-> SubSeq(vr.buf, vr.pos + 1, vr.pos + n)]
    ELSE [vr |-> [vr EXCEPT !.pos = Len(vr.buf), !.err = EOF],
          v |-> SubSeq(vr.buf, vr.pos + 1, Len(vr.buf)) \o Zeros(n - avail)]

\* for i := range r { cr, cg, cb, ca := four ReadUint8; r[i] = color.RGBA{...} }
parseRGBAChunk(c) ==
    LET Palette(l) ==
            [r |-> [i \in 1..PaletteLen |->
                      [R |-> l.v[4 * i - 3], G |-> l.v[4 * i - 2],
                       B |-> l.v[4 * i - 1], A |-> l.v[4 * i]]],
             err |-> RequireEOF(l.vr).err]
    IN  Palette(ReadUint8s(NewReader(c), 4 * PaletteLen))

RECURSIVE FramesLoop(_, _, _)
\* for i := 0; i < int(nFrame); i++ { frames = append(frames, vr.ReadDict()) }
FramesLoop(vr, n, frames) ==
    IF n <= 0 THEN [vr |-> vr, v |-> frames]
    ELSE LET Rest(d) == FramesLoop(d.vr, n - 1, Append(frames, d.v)) IN
         Rest(ReadDict(vr))

TRNFail(e) == [id |-> 0, childID |-> 0, layerID |-> 0, n |-> NilPtr, err |-> e]

\* parsenTRNChunk without the check of the reserved field.
parsenTRNChunkAnyReserved(c) ==
    LET Node(f, frames, attr, fr) ==
            IF frames.vr.err # Nil THEN TRNFail(frames.vr.err)
            ELSE IF f.v[6] # 1 THEN TRNFail("must have one frame in nTRN chunk")
            ELSE IF attr.d.err # Nil THEN TRNFail("error reading nTRN chunk")
            ELSE IF AssertNoUnreadFields(attr.d) # Nil
                 THEN TRNFail("unexpected field or fields in nTRN attributes")
            ELSE IF fr.d.err # Nil THEN TRNFail("error reading nTRN frame chunk")
            ELSE IF AssertNoUnreadFields(fr.d) # Nil
                 THEN TRNFail("unexpected field or fields in nTRN frame")
            ELSE [id |-> f.v[1], childID |-> f.v[3], layerID |-> f.v[5],
                  n |-> <<[kind |-> "Transform", Name |-> attr.v[1],
                           Hidden |-> attr.v[2], Layer |-> NilPtr,
                           Transforms |-> <<[R |-> fr.v[1], T |-> fr.v[2]]>>,
                           Child |-> NilPtr]>>,
                  err |-> RequireEOF(frames.vr).err]
        Dicts(f, frames) ==
            Node(f, frames,
                 DictFields(f.v[2], <<<<KeyName, "String", <<>>>>,
                                      <<KeyHidden, "Bool", FALSE>>>>, <<>>),
                 DictFields(frames.v[1], <<<<KeyR, "Matrix3x3", Matrix3x3Identity>>,
                                           <<KeyT, "3xInt32", <<0, 0, 0>>>>>>, <<>>))
        Frames(f) == Dicts(f, FramesLoop(f.vr, f.v[6], <<>>))
    IN  Frames(ReadFields(NewReader(c),
                          <<"Int32", "Dict", "Int32", "Int32", "Int32", "Int32">>, <<>>))

\* id, attr, childID, reserved, layerID and nFrame are read, then the
\* frames; name and hidden are read from attr, r and t from frames[0].
parsenTRNChunk(c) ==
    LET Node(f, frames, attr, fr) ==
            IF frames.vr.err # Nil THEN TRNFail(frames.vr.err)
            ELSE IF f.v[4] # -1 THEN TRNFail("reserved field in nTRN must be -1")
            ELSE IF f.v[6] # 1 THEN TRNFail("must have one frame in nTRN chunk")
            ELSE IF attr.d.err # Nil THEN TRNFail("error reading nTRN chunk")
            ELSE IF AssertNoUnreadFields(attr.d) # Nil
                 THEN TRNFail("unexpected field or fields in nTRN attributes")
            ELSE IF fr.d.err # Nil THEN TRNFail("error reading nTRN frame chunk")
            ELSE IF AssertNoUnreadFields(fr.d) # Nil
                 THEN TRNFail("unexpected field or fields in nTRN frame")
            ELSE [id |-> f.v[1], childID |-> f.v[3], layerID |-> f.v[5],
                  n |-> <<[kind |-> "Transform", Name |-> attr.v[1],
                           Hidden |-> attr.v[2], Layer |-> NilPtr,
                           Transforms |-> <<[R |-> fr.v[1], T |-> fr.v[2]]>>,
                           Child |-> NilPtr]>>,
                  err |-> RequireEOF(frames.vr).err]
        Dicts(f, frames) ==
            Node(f, frames,
                 DictFields(f.v[2], <<<<KeyName, "String", <<>>>>,
                                      <<KeyHidden, "Bool", FALSE>>>>, <<>>),
                 DictFields(frames.v[1], <<<<KeyR, "Matrix3x3", Matrix3x3Identity>>,
                                           <<KeyT, "3xInt32", <<0, 0, 0>>>>>>, <<>>))
        Frames(f) == Dicts(f, FramesLoop(f.vr, f.v[6], <<>>))
    IN  Frames(ReadFields(NewReader(c),
                          <<"Int32", "Dict", "Int32", "Int32", "Int32", "Int32">>, <<>>))

RECURSIVE Int32Loop(_, _, _)
\* for i := 0; i < int(nChild); i++ { childIDs = append(childIDs, vr.ReadInt32()) }
Int32Loop(vr, n, ids) ==
    IF n <= 0 THEN [vr |-> vr, v |-> ids]
    ELSE LET Rest(x) == Int32Loop(x.vr, n - 1, Append(ids, x.v)) IN
         Rest(ReadInt32(vr))

GRPFail(e) == [id |-> 0, childIDs |-> <<>>, g |-> NilPtr, err |-> e]

\* id, attr and nChild are read, then the child ids; name and hidden are
\* read from attr.
parsenGRPChunk(c) ==
    LET Node(f, childIDs, attr) ==
            IF IsPanic(childIDs.vr.err) THEN GRPFail(childIDs.vr.err)
            ELSE IF childIDs.vr.err # Nil THEN GRPFail("error reading nGRP chunk")
            ELSE IF attr.d.err # Nil THEN GRPFail("error reading nGRP chunk")
            ELSE IF AssertNoUnreadFields(attr.d) # Nil
                 THEN GRPFail("unexpected fields in nGRP chunk attributes")
            ELSE [id |-> f.v[1], childIDs |-> childIDs.v,
                  g |-> <<[kind |-> "Group", Name |-> attr.v[1], Hidden |-> attr.v[2],
                           Children |-> <<>>]>>,
                  err |-> RequireEOF(childIDs.vr).err]
        Children(f) ==
            Node(f, Int32Loop(f.vr, f.v[3], <<>>),
                 DictFields(f.v[2], <<<<KeyName, "String", <<>>>>,
                                      <<KeyHidden, "Bool", FALSE>>>>, <<>>))
    IN  Children(ReadFields(NewReader(c), <<"Int32", "Dict", "Int32">>, <<>>))

RECURSIVE ModelIDLoop(_, _, _)
\* for i := 0; i < int(nModel); i++ { modelIDs = append(modelIDs, vr.ReadInt32()); _ = vr.ReadDict() }
ModelIDLoop(vr, n, ids) ==
    IF n <= 0 THEN [vr |-> vr, v |-> ids]
    ELSE LET Rest(x, d) == ModelIDLoop(d.vr, n - 1, Append(ids, x.v))
             Dict(x) == Rest(x, ReadDict(x.vr))
         IN  Dict(ReadInt32(vr))

SHPFail(e) == [id |-> 0, modelIDs |-> <<>>, s |-> NilPtr, err |-> e]

\* id, attr and nModel are read, then the model ids with their dicts; name
\* and hidden are read from attr.
parsenSHPChunk(c) ==
    LET Node(f, modelIDs, attr) ==
            IF IsPanic(modelIDs.vr.err) THEN SHPFail(modelIDs.vr.err)
            ELSE IF modelIDs.vr.err # Nil THEN SHPFail("error reading nSHP chunk")
            ELSE IF attr.d.err # Nil THEN SHPFail("error reading nSHP chunk")
            ELSE IF AssertNoUnreadFields(attr.d) # Nil
                 THEN SHPFail("unexpected fields in nSHP chunk attributes")
            ELSE [id |-> f.v[1], modelIDs |-> modelIDs.v,
                  s |-> <<[kind |-> "Shape", Name |-> attr.v[1], Hidden |-> attr.v[2],
                           Models |-> <<>>]>>,
                  err |-> RequireEOF(modelIDs.vr).err]
        ModelIDs(f) ==
            Node(f, ModelIDLoop(f.vr, f.v[3], <<>>),
                 DictFields(f.v[2], <<<<KeyName, "String", <<>>>>,
                                      <<KeyHidden, "Bool", FALSE>>>>, <<>>))
    IN  ModelIDs(ReadFields(NewReader(c), <<"Int32", "Dict", "Int32">>, <<>>))

LAYRFail(e) == [id |-> 0, layer |-> NilPtr, err |-> e]

\* id, attr and reserved are read; name and hidden are read from attr.
parseLAYRChunk(c) ==
    LET Layer(f, attr) ==
            IF IsPanic(f.vr.err) THEN LAYRFail(f.vr.err)
            ELSE IF f.vr.err # Nil THEN LAYRFail("error reading LAYR chunk")
            ELSE IF f.v[3] # -1 THEN LAYRFail("reserved field in LAYR chunk must be -1")
            ELSE IF attr.d.err # Nil THEN LAYRFail("error reading LAYR chunk")
            ELSE IF AssertNoUnreadFields(attr.d) # Nil
                 THEN LAYRFail("unexpected fields in LAYR chunk attributes")
            ELSE [id |-> f.v[1],
                  layer |-> <<[Index |-> f.v[1], Name |-> attr.v[1],
                               Hidden |-> attr.v[2]]>>,
                  err |-> RequireEOF(f.vr).err]
        Attr(f) ==
            Layer(f, DictFields(f.v[2], <<<<KeyName, "String", <<>>>>,
                                          <<KeyHidden, "Bool", FALSE>>>>, <<>>))
    IN  Attr(ReadFields(NewReader(c), <<"Int32", "Dict", "Int32">>, <<>>))

MaterialDiffuse == 0

MaterialMetal == 1

MaterialGlass == 2

MaterialEmissive == 3

\* color.RGBA{}, the zero color.
ZeroColor == [R |-> 0, G |-> 0, B |-> 0, A |-> 0]

\* Material{}, the zero value.
ZeroMaterial ==
    [Color |-> ZeroColor, Type |-> MaterialDiffuse, Weight |-> 0, Plastic |-> FALSE,
     Roughness |-> 0, Specular |-> 0, IOR |-> 0, Attenuation |-> 0, Flux |-> 0,
     LDR |-> 0]

\* The mutant of parseMatType that takes every string for _diffuse.
parseMatTypeAny(s) == [t |-> MaterialDiffuse, err |-> Nil]

\* The error is the text "unknown material" with the string s in it.
parseMatType(s) ==
    IF s = StrDiffuse THEN [t |-> MaterialDiffuse, err |-> Nil]
    ELSE IF s = StrMetal THEN [t |-> MaterialMetal, err |-> Nil]
    ELSE IF s = StrGlass THEN [t |-> MaterialGlass, err |-> Nil]
    ELSE IF s = StrEmit THEN [t |-> MaterialEmissive, err |-> Nil]
    ELSE [t |-> MaterialDiffuse, err |-> "unknown material " \o ToString(s)]

MatlFail(e) == [idx |-> 0, mat |-> ZeroMaterial, err |-> e]

\* matID and the dict are read and the end of the content is required; the
\* type, the seven floats and plastic are read from the dict.  Floats are
\* integer thousandths: x * 100 is 100 times the thousandths, and + 1.0
\* adds 1000.
parseMatlChunk(c) ==
    LET Material(f, vr, m, matType) ==
            IF f.v[1] > 255 \/ f.v[1] < 0 THEN MatlFail("material index out of range")
            ELSE IF IsPanic(vr.err) THEN MatlFail(vr.err)
            ELSE IF vr.err # Nil THEN MatlFail("error reading MATL chunk")
            ELSE IF m.d.err # Nil THEN MatlFail("dict error reading MATL chunk")
            ELSE IF AssertNoUnreadFields(m.d) # Nil
                 THEN MatlFail("dict error -- unknown field")
            ELSE IF matType.err # Nil
                 THEN MatlFail("error reading MATL chunk: " \o matType.err)
            ELSE [idx |-> f.v[1],
                  mat |-> [Color |-> ZeroColor, Type |-> matType.t,
                           Weight |-> m.v[2] * 100, Plastic |-> m.v[8],
                           Roughness |-> m.v[3] * 100, Specular |-> m.v[4] * 100,
                           IOR |-> m.v[5] + 1000, Attenuation |-> m.v[6] * 100,
                           Flux |-> m.v[7] * 100, LDR |-> m.v[9] * 100],
                  err |-> Nil]
        Type(f, vr, m) == Material(f, vr, m, parseMatType(m.v[1]))
        Dict(f) ==
            Type(f, RequireEOF(f.vr),
                 DictFields(f.v[2], <<<<KeyType, "String", StrMissing>>,
                                      <<KeyWeight, "Float", 1000>>,
                                      <<KeyRough, "Float", 0>>,
                                      <<KeySpec, "Float", 0>>,
                                      <<KeyIor, "Float", 0>>,
                                      <<KeyAtt, "Float", 0>>,
                                      <<KeyFlux, "Float", 0>>,
                                      <<KeyPlastic, "Bool", FALSE>>,
                                      <<KeyLdr, "Float", 0>>>>, <<>>))
    IN  Dict(ReadFields(NewReader(c), <<"Int32", "Dict">>, <<>>))

\* parseChunk: the tag, the contents and the child contents of the next chunk.
parseChunk(vr) ==
    LET Chunk(id, M, c, cc) ==
            IF M.vr.err # Nil
            THEN [vr |-> M.vr, ID |-> <<>>, contents |-> <<>>, childContents |-> <<>>,
                  err |-> M.vr.err]
            ELSE IF cc.vr.err # Nil
            THEN [vr |-> cc.vr, ID |-> <<>>, contents |-> <<>>, childContents |-> <<>>,
                  err |-> cc.vr.err]
            ELSE [vr |-> cc.vr, ID |-> id.v, contents |-> c.v, childContents |-> cc.v,
                  err |-> Nil]
        Children(id, M, c) == Chunk(id, M, c, ReadBytes(c.vr, M.v))
        Contents(id, N, M) == Children(id, M, ReadBytes(M.vr, N.v))
        ReadM(id, N) == Contents(id, N, ReadInt32(N.vr))
        ReadN(id) == ReadM(id, ReadInt32(id.vr))
    IN  ReadN(ReadBytes(vr, 4))

\* const version = 150
version == 150

\* "VOX "
StrVOX == <<86, 79, 88, 32>>

\* What Parse has when it is done with the header: the reader, the error it
\* returns (Nil when it goes on) and the bytes handed to parseMainChunks.
ParseFail(r, e) == [vr |-> r, err |-> e, childContents |-> <<>>]

\* parseMainChunk up to its call of parseMainChunks: the chunk is read, its
\* tag and its contents are checked, and RequireEOF is called on the reader;
\* the reader is not looked at again, parseMainChunks gets a new one.
parseMainChunk(r) ==
    LET Main(ch) ==
            IF ch.err # Nil THEN ParseFail(ch.vr, ch.err)
            ELSE IF ch.ID # TagMAIN THEN ParseFail(ch.vr, "missing MAIN chunk")
            ELSE IF Len(ch.contents) # 0 THEN ParseFail(ch.vr, "unexpected MAIN contents")
            ELSE [vr |-> RequireEOF(ch.vr), err |-> Nil, childContents |-> ch.childContents]
    IN  Main(parseChunk(r))

\* Parse with the check of the version dropped.
ParseAnyVersion(b) ==
    LET Header(id, ver) ==
            IF ver.vr.err # Nil THEN ParseFail(ver.vr, "failed reading header")
            ELSE IF id.v # StrVOX THEN ParseFail(ver.vr, "not a magicavox file")
            ELSE parseMainChunk(ver.vr)
        Version(id) == Header(id, ReadInt32(id.vr))
    IN  Version(ReadBytes(NewReader(b), 4))

\* Parse on the bytes b up to the call of parseMainChunks.
Parse(b) ==
    LET Header(id, ver) ==
            IF ver.vr.err # Nil THEN ParseFail(ver.vr, "failed reading header")
            ELSE IF id.v # StrVOX THEN ParseFail(ver.vr, "not a magicavox file")
            ELSE IF ver.v # version THEN ParseFail(ver.vr, "vox file must be version 150")
            ELSE parseMainChunk(ver.vr)
        Version(id) == Header(id, ReadInt32(id.vr))
    IN  Version(ReadBytes(NewReader(b), 4))

(***************************************************************************)
(* The state of Parse and of parseMainChunks.                              *)
(***************************************************************************)
VARIABLES
    vr,             \* the reader of Parse, a pointer: nil before Parse has made
                    \* it, then the reader as parseMainChunk leaves it
    result,         \* "start" before Parse has read the header, "running" in
                    \* the loop of parseMainChunks, or how Parse returned:
                    \* "ok", "error", "panic"
    err,            \* the error returned (Nil while running and on success)
    doc,            \* the *Main returned (NilPtr unless result = "ok")
    state,          \* the ordering state
    pack,           \* the model count of the PACK chunk, -1 without one
    models,         \* the models parsed
    size,           \* the size of the last SIZE chunk
    rgba,           \* the palette, empty (the nil slice) before the RGBA chunk
    mats,           \* the materials
    sceneIDs,       \* scene node id -> node
    sceneChildren,  \* scene node id -> child ids
    sceneLayer,     \* transform node id -> layer id
    layerIDs,       \* layer id -> layer
    ignoredChunks,  \* the unrecognized tags that are no longer reported
    logged,         \* the tags log.Printf reported, in order
    file,           \* the recognized chunks consumed so far, in order: the tag,
                    \* the content length and the children length of each
    skipped,        \* the unrecognized chunks skipped so far (the same fields)
    call,           \* the last call of a method of Matrix3x3, of voxReader or
                    \* of DenseWorld: the method, its arguments and what it
                    \* returned (NoCall before any)
    dw              \* the *DenseWorld the methods are called on (NilPtr before
                    \* one has been made)

vars == <<vr, result, err, doc, state, pack, models, size, rgba, mats, sceneIDs,
          sceneChildren, sceneLayer, layerIDs, ignoredChunks, logged, file, skipped,
          call, dw>>

NoCall == [op |-> "none"]

statePack == 0

stateSize == 1

stateXYZI == 2

stateRGBA == 3

stateSceneGraph == 4

stateLAYR == 5

stateMatt == 6

\* The locals of parseMainChunks as it starts.
InitLocals ==
    /\ state = statePack
    /\ pack = -1
    /\ models = <<>>
    /\ size = <<0, 0, 0>>
    /\ rgba = <<>>
    /\ mats = <<>>
    /\ sceneIDs = EmptyMap
    /\ sceneChildren = EmptyMap
    /\ sceneLayer = EmptyMap
    /\ layerIDs = EmptyMap
    /\ ignoredChunks = {TagrOBJ}

Init ==
    /\ vr = NilPtr
    /\ result = "start"
    /\ err = Nil
    /\ doc = NilPtr
    /\ logged = <<>>
    /\ file = <<>>
    /\ skipped = {}
    /\ call = NoCall
    /\ dw = NilPtr
    /\ InitLocals

\* return nil, e: the locals of the call are gone with it.
Fail(e) ==
    /\ result' = IF IsPanic(e) THEN "panic" ELSE "error"
    /\ err' = e
    /\ doc' = NilPtr
    /\ state' = statePack
    /\ pack' = -1
    /\ models' = <<>>
    /\ size' = <<0, 0, 0>>
    /\ rgba' = <<>>
    /\ mats' = <<>>
    /\ sceneIDs' = EmptyMap
    /\ sceneChildren' = EmptyMap
    /\ sceneLayer' = EmptyMap
    /\ layerIDs' = EmptyMap
    /\ ignoredChunks' = {TagrOBJ}
    /\ file' = <<>>
    /\ skipped' = {}
    /\ UNCHANGED <<logged, vr, call, dw>>

\* The chunk was handled and the loop goes on: h is its entry in file.
Consumed(h) ==
    /\ file' = Append(file, h)
    /\ UNCHANGED <<vr, result, err, doc, skipped, call, dw>>

\* if len(cc) != 0 { return nil, "unexpected child chunks" }, after the switch.
ErrChildChunks == "unexpected child chunks"

(***************************************************************************)
(* The cases of the switch; p is what the chunk's decoder returned, cc the *)
(* child contents.                                                         *)
(***************************************************************************)
\* The case of PACK with the state check dropped.
CasePACKAnywhere(p, cc, h) ==
    IF p.err # Nil THEN Fail(p.err)
    ELSE IF Len(cc) # 0 THEN Fail(ErrChildChunks)
    ELSE /\ pack' = p.n
         /\ state' = stateSize
         /\ Consumed(h)
         /\ UNCHANGED <<models, size, rgba, mats, sceneIDs, sceneChildren, sceneLayer,
                        layerIDs, ignoredChunks, logged>>

CasePACK(p, cc, h) ==
    IF state # statePack THEN Fail("PACK chunk must appear first in MAIN")
    ELSE IF p.err # Nil THEN Fail(p.err)
    ELSE IF Len(cc) # 0 THEN Fail(ErrChildChunks)
    ELSE /\ pack' = p.n
         /\ state' = stateSize
         /\ Consumed(h)
         /\ UNCHANGED <<models, size, rgba, mats, sceneIDs, sceneChildren, sceneLayer,
                        layerIDs, ignoredChunks, logged>>

\* The case of SIZE with the state check dropped.
CaseSIZEAnywhere(p, cc, h) ==
    IF p.err # Nil THEN Fail(p.err)
    ELSE IF Len(cc) # 0 THEN Fail(ErrChildChunks)
    ELSE /\ size' = p.size
         /\ state' = stateXYZI
         /\ Consumed(h)
         /\ UNCHANGED <<pack, models, rgba, mats, sceneIDs, sceneChildren, sceneLayer,
                        layerIDs, ignoredChunks, logged>>

CaseSIZE(p, cc, h) ==
    LET st == IF state = statePack THEN stateSize ELSE state IN
    IF st # stateSize THEN Fail("misplaced SIZE chunk")
    ELSE IF p.err # Nil THEN Fail(p.err)
    ELSE IF Len(cc) # 0 THEN Fail(ErrChildChunks)
    ELSE /\ size' = p.size
         /\ state' = stateXYZI
         /\ Consumed(h)
         /\ UNCHANGED <<pack, models, rgba, mats, sceneIDs, sceneChildren, sceneLayer,
                        layerIDs, ignoredChunks, logged>>

CaseXYZI(p, cc, h) ==
    LET ms == Append(models, [X |-> size[1], Y |-> size[2], Z |-> size[3], V |-> p.v]) IN
    IF state # stateXYZI THEN Fail("misplaced XYZI chunk")
    ELSE IF p.err # Nil THEN Fail(p.err)
    ELSE IF Len(cc) # 0 THEN Fail(ErrChildChunks)
    ELSE /\ models' = ms
         /\ state' = IF pack # -1 /\ Len(ms) = pack THEN stateSceneGraph ELSE stateSize
         /\ Consumed(h)
         /\ UNCHANGED <<pack, size, rgba, mats, sceneIDs, sceneChildren, sceneLayer,
                        layerIDs, ignoredChunks, logged>>

CasenTRN(p, cc, h) ==
    LET st == IF state = stateSize THEN stateSceneGraph ELSE state IN
    IF state = stateSize /\ pack # -1 THEN Fail("missing models")
    ELSE IF st # stateSceneGraph THEN Fail("misplaced nTRN chunk")
    ELSE IF p.err # Nil THEN Fail(p.err)
    ELSE IF p.id \in DOMAIN sceneIDs THEN Fail("node appears twice")
    ELSE IF Len(cc) # 0 THEN Fail(ErrChildChunks)
    ELSE /\ state' = st
         /\ sceneIDs' = MapPut(sceneIDs, p.id, p.n[1])
         /\ sceneChildren' = MapPut(sceneChildren, p.id, <<p.childID>>)
         /\ sceneLayer' = MapPut(sceneLayer, p.id, p.layerID)
         /\ Consumed(h)
         /\ UNCHANGED <<pack, models, size, rgba, mats, layerIDs, ignoredChunks, logged>>

CasenGRP(p, cc, h) ==
    IF state # stateSceneGraph THEN Fail("misplaced nGRP chunk")
    ELSE IF p.err # Nil THEN Fail(p.err)
    ELSE IF p.id \in DOMAIN sceneIDs THEN Fail("node appears twice")
    ELSE IF Len(cc) # 0 THEN Fail(ErrChildChunks)
    ELSE /\ sceneIDs' = MapPut(sceneIDs, p.id, p.g[1])
         /\ sceneChildren' = MapPut(sceneChildren, p.id, p.childIDs)
         /\ Consumed(h)
         /\ UNCHANGED <<state, pack, models, size, rgba, mats, sceneLayer, layerIDs,
                        ignoredChunks, logged>>

\* The case of nSHP without the check of the model ids.
CasenSHPAnyModel(p, cc, h) ==
    IF state # stateSceneGraph THEN Fail("misplaced nSHP chunk")
    ELSE IF p.err # Nil THEN Fail(p.err)
    ELSE IF p.id \in DOMAIN sceneIDs THEN Fail("node appears twice")
    ELSE IF Len(cc) # 0 THEN Fail(ErrChildChunks)
    ELSE /\ sceneIDs' = MapPut(sceneIDs, p.id, [p.s[1] EXCEPT !.Models = p.modelIDs])
         /\ Consumed(h)
         /\ UNCHANGED <<state, pack, models, size, rgba, mats, sceneChildren, sceneLayer,
                        layerIDs, ignoredChunks, logged>>

\* &models[modelID]: a pointer to a model is the model's index.
CasenSHP(p, cc, h) ==
    IF state # stateSceneGraph THEN Fail("misplaced nSHP chunk")
    ELSE IF p.err # Nil THEN Fail(p.err)
    ELSE IF p.id \in DOMAIN sceneIDs THEN Fail("node appears twice")
    ELSE IF \E i \in 1..Len(p.modelIDs) :
                p.modelIDs[i] < 0 \/ p.modelIDs[i] >= Len(models)
         THEN Fail("nSHP node refers to missing model ID")
    ELSE IF Len(cc) # 0 THEN Fail(ErrChildChunks)
    ELSE /\ sceneIDs' = MapPut(sceneIDs, p.id, [p.s[1] EXCEPT !.Models = p.modelIDs])
         /\ Consumed(h)
         /\ UNCHANGED <<state, pack, models, size, rgba, mats, sceneChildren, sceneLayer,
                        layerIDs, ignoredChunks, logged>>

\* The case of LAYR without the check of a second chunk with the same id.
CaseLAYRAgain(p, cc, h) ==
    LET st == IF state = stateSceneGraph THEN stateLAYR ELSE state IN
    IF st # stateLAYR THEN Fail("misplaced LAYR chunk")
    ELSE IF p.err # Nil THEN Fail(p.err)
    ELSE IF Len(cc) # 0 THEN Fail(ErrChildChunks)
    ELSE /\ state' = st
         /\ layerIDs' = MapPut(layerIDs, p.id, p.layer[1])
         /\ Consumed(h)
         /\ UNCHANGED <<pack, models, size, rgba, mats, sceneIDs, sceneChildren,
                        sceneLayer, ignoredChunks, logged>>

CaseLAYR(p, cc, h) ==
    LET st == IF state = stateSceneGraph THEN stateLAYR ELSE state IN
    IF st # stateLAYR THEN Fail("misplaced LAYR chunk")
    ELSE IF p.err # Nil THEN Fail(p.err)
    ELSE IF p.id \in DOMAIN layerIDs THEN Fail("two LAYR chunks have the same id")
    ELSE IF Len(cc) # 0 THEN Fail(ErrChildChunks)
    ELSE /\ state' = st
         /\ layerIDs' = MapPut(layerIDs, p.id, p.layer[1])
         /\ Consumed(h)
         /\ UNCHANGED <<pack, models, size, rgba, mats, sceneIDs, sceneChildren,
                        sceneLayer, ignoredChunks, logged>>

\* The case of RGBA with the state check dropped.
CaseRGBAAnywhere(p, cc, h) ==
    IF Len(cc) # 0 THEN Fail(ErrChildChunks)
    ELSE /\ rgba' = p.r
         /\ state' = stateMatt
         /\ Consumed(h)
         /\ UNCHANGED <<pack, models, size, mats, sceneIDs, sceneChildren, sceneLayer,
                        layerIDs, ignoredChunks, logged>>

\* rgba, err = parseRGBAChunk(c): the error is assigned and never looked at.
CaseRGBA(p, cc, h) ==
    LET st == IF state = stateLAYR THEN stateRGBA ELSE state IN
    IF st # stateRGBA THEN Fail("misplaced RGBA chunk")
    ELSE IF Len(cc) # 0 THEN Fail(ErrChildChunks)
    ELSE /\ rgba' = p.r
         /\ state' = stateMatt
         /\ Consumed(h)
         /\ UNCHANGED <<pack, models, size, mats, sceneIDs, sceneChildren, sceneLayer,
                        layerIDs, ignoredChunks, logged>>

\* for len(mats) <= idx { mats = append(mats, Material{}) }; mats[idx] = mat
SetMaterial(ms, idx, mat) ==
    [i \in 1..(IF Len(ms) <= idx THEN idx + 1 ELSE Len(ms)) |->
        IF i = idx + 1 THEN mat ELSE IF i <= Len(ms) THEN ms[i] ELSE ZeroMaterial]

CaseMATL(p, cc, h) ==
    IF state # stateMatt THEN Fail("misplaced MATL chunk")
    ELSE IF p.err # Nil THEN Fail(p.err)
    ELSE IF Len(cc) # 0 THEN Fail(ErrChildChunks)
    ELSE /\ Consumed(h)
         /\ mats' = SetMaterial(mats, p.idx, p.mat)
         /\ UNCHANGED <<state, pack, models, size, rgba, sceneIDs, sceneChildren,
                        sceneLayer, layerIDs, ignoredChunks, logged>>

\* The default case with a notice for every chunk, seen before or not.
CaseDefaultLogEach(id, cc, h) ==
    /\ logged' = Append(logged, id)
    /\ ignoredChunks' = ignoredChunks \cup {id}
    /\ skipped' = skipped \cup {h}
    /\ UNCHANGED <<vr, result, err, doc, file, state, pack, models, size, rgba, mats,
                   sceneIDs, sceneChildren, sceneLayer, layerIDs, call, dw>>

\* default: the tag is reported once, and continue skips the check of cc.
CaseDefault(id, cc, h) ==
    /\ logged' = IF id \notin ignoredChunks THEN Append(logged, id) ELSE logged
    /\ ignoredChunks' = ignoredChunks \cup {id}
    /\ skipped' = skipped \cup {h}
    /\ UNCHANGED <<vr, result, err, doc, file, state, pack, models, size, rgba, mats,
                   sceneIDs, sceneChildren, sceneLayer, layerIDs, call, dw>>

(***************************************************************************)
(* buildScene.                                                             *)
(***************************************************************************)
RECURSIVE SortedSeq(_)
\* The elements of the set of integers S in ascending order.
SortedSeq(S) ==
    IF S = {} THEN <<>>
    ELSE LET m == CHOOSE x \in S : \A y \in S : x <= y IN <<m>> \o SortedSeq(S \ {m})

Reverse(q) == [i \in 1..Len(q) |-> q[Len(q) + 1 - i]]

Rotate(q, k) == [i \in 1..Len(q) |-> q[((i + k - 1) % Len(q)) + 1]]

\* The orders in which a range over a map with the keys S is taken to run.
\* Go leaves the order unspecified; the orders taken are the rotations of the
\* ascending and of the descending key order, so that every key comes first
\* in some order and every two keys come in both relative orders.
RangeOrders(S) ==
    IF S = {} THEN {<<>>}
    ELSE LET up == SortedSeq(S) IN
         {Rotate(up, k) : k \in 0..(Len(up) - 1)}
           \cup {Rotate(Reverse(up), k) : k \in 0..(Len(up) - 1)}

\* The slice q with the layer l put before the first layer of a larger Index.
InsertLayer(q, l) ==
    LET before == {i \in 1..Len(q) : \A j \in 1..i : q[j].Index <= l.Index}
        n == Cardinality(before)
    IN  SubSeq(q, 1, n) \o <<l>> \o SubSeq(q, n + 1, Len(q))

RECURSIVE SortLayers(_, _)
\* sort.Slice(scene.Layers, less) with less(i, j) = Layers[i].Index <
\* Layers[j].Index, as an insertion sort of q into the sorted slice done.
SortLayers(q, done) ==
    IF q = <<>> THEN done ELSE SortLayers(Tail(q), InsertLayer(done, Head(q)))

\* scene.Layers without the sort: the layers in the order of the range.
SceneLayersUnsorted(o, layers) ==
    [i \in 1..Len(o) |-> layers[o[i]]]

\* scene.Layers: the layers appended in the order o of the range over
\* layerIDs, then sorted by Index.
SceneLayers(o, layers) ==
    SortLayers([i \in 1..Len(o) |-> layers[o[i]]], <<>>)

RECURSIVE FindRootKeepFirst(_, _, _, _)
\* The root loop without the "scene has two root nodes" return.
FindRootKeepFirst(o, ids, lids, top) ==
    IF o = <<>> THEN [top |-> top, err |-> Nil]
    ELSE LET k == Head(o) IN
         IF ids[k].kind = "Transform" /\ k \in DOMAIN lids /\ lids[k] = -1 /\ top = NilPtr
         THEN FindRootKeepFirst(Tail(o), ids, lids, <<k>>)
         ELSE FindRootKeepFirst(Tail(o), ids, lids, top)

RECURSIVE FindRoot(_, _, _, _)
\* for k, v := range sceneIDs { ... }, the keys taken in the order o: the
\* root found (a pointer) and the error.
FindRoot(o, ids, lids, top) ==
    IF o = <<>> THEN [top |-> top, err |-> Nil]
    ELSE LET k == Head(o) IN
         IF ids[k].kind = "Transform" /\ k \in DOMAIN lids /\ lids[k] = -1
         THEN IF top # NilPtr THEN [top |-> top, err |-> "scene has two root nodes"]
              ELSE FindRoot(Tail(o), ids, lids, <<k>>)
         ELSE FindRoot(Tail(o), ids, lids, top)

\* GroupNode.addChild putting the child first.
addChildPrepend(n, c) ==
    IF n.kind = "Transform"
    THEN IF n.Child # NilPtr
         THEN [n |-> n, err |-> "can't add two children nodes to transform node"]
         ELSE [n |-> [n EXCEPT !.Child = <<c>>], err |-> Nil]
    ELSE [n |-> [n EXCEPT !.Children = <<c>> \o @], err |-> Nil]

\* addChild of TransformNode and of GroupNode: the node after the call and
\* the error.
addChild(n, c) ==
    IF n.kind = "Transform"
    THEN IF n.Child # NilPtr
         THEN [n |-> n, err |-> "can't add two children nodes to transform node"]
         ELSE [n |-> [n EXCEPT !.Child = <<c>>], err |-> Nil]
    ELSE [n |-> [n EXCEPT !.Children = Append(@, c)], err |-> Nil]

RECURSIVE AddChildren(_, _, _, _)
\* for _, c := range children { cn, ok := sceneIDs[c]; ...; cs.addChild(cn) }
AddChildren(ids, scid, children, nodes) ==
    IF children = <<>> THEN [nodes |-> nodes, err |-> Nil]
    ELSE LET c == Head(children) IN
         IF c \notin DOMAIN ids
         THEN [nodes |-> nodes, err |-> "node has child, but no such node exists"]
         ELSE LET a == addChild(nodes[scid], c) IN
              IF a.err # Nil THEN [nodes |-> nodes, err |-> a.err]
              ELSE AddChildren(ids, scid, Tail(children),
                               [nodes EXCEPT ![scid] = a.n])

RECURSIVE LinkChildren(_, _, _, _)
\* for scid, children := range sceneChildrenIDs { ... }, the keys taken in
\* the order o: the nodes with their children attached, and the error.
LinkChildren(o, ids, chs, nodes) ==
    IF o = <<>> THEN [nodes |-> nodes, err |-> Nil]
    ELSE LET scid == Head(o) IN
         IF scid \notin DOMAIN ids
         THEN [nodes |-> nodes, err |-> "node has children, but doesn't exist"]
         ELSE IF ids[scid].kind = "Shape"
         THEN [nodes |-> nodes, err |-> "node has a type which we can't add children to"]
         ELSE LET a == AddChildren(ids, scid, chs[scid], nodes) IN
              IF a.err # Nil THEN [nodes |-> nodes, err |-> a.err]
              ELSE LinkChildren(Tail(o), ids, chs, a.nodes)

ErrCycle == "cycle found"

RECURSIVE nodeCount(_, _, _)
RECURSIVE GroupCount(_, _, _, _)
\* for _, c := range g.Children { rc, err := c.nodeCount(visited); ...; r += rc }
GroupCount(nodes, children, visited, r) ==
    IF children = <<>> THEN [r |-> r, err |-> Nil, visited |-> visited]
    ELSE LET rc == nodeCount(nodes, Head(children), visited) IN
         IF rc.err # Nil THEN [r |-> 0, err |-> rc.err, visited |-> rc.visited]
         ELSE GroupCount(nodes, Tail(children), rc.visited, r + rc.r)

\* nodeCount of the node id: the count, the error and the visited map after
\* the call.  A ShapeNode looks itself up in visited and never enters itself.
nodeCount(nodes, id, visited) ==
    LET n == nodes[id] IN
    IF id \in visited THEN [r |-> 0, err |-> ErrCycle, visited |-> visited]
    ELSE IF n.kind = "Shape" THEN [r |-> 1, err |-> Nil, visited |-> visited]
    ELSE IF n.kind = "Transform"
    THEN IF n.Child # NilPtr
         THEN LET rc == nodeCount(nodes, n.Child[1], visited \cup {id}) IN
              IF rc.err # Nil THEN [r |-> 0, err |-> rc.err, visited |-> rc.visited]
              ELSE [r |-> 1 + rc.r, err |-> Nil, visited |-> rc.visited]
         ELSE [r |-> 1, err |-> Nil, visited |-> visited \cup {id}]
    ELSE GroupCount(nodes, n.Children, visited \cup {id}, 1)

\* buildScene with the ranges over sceneIDs, sceneChildrenIDs and layerIDs run
\* in the orders o1, o2 and o3: the scene, the nodes with their links, and
\* the error.
buildScene(o1, o2, o3, ids, chs, lids, layers) ==
    LET none == [Layers |-> <<>>, Node |-> NilPtr]
        Built(top, linked, nc) ==
            IF top.err # Nil THEN [scene |-> none, nodes |-> ids, err |-> top.err]
            ELSE IF top.top = NilPtr
            THEN [scene |-> none, nodes |-> ids,
                  err |-> "failed to find root node in the scene graph"]
            ELSE IF linked.err # Nil
            THEN [scene |-> none, nodes |-> ids, err |-> linked.err]
            ELSE IF nc.err # Nil THEN [scene |-> none, nodes |-> ids, err |-> nc.err]
            ELSE IF nc.r # Cardinality(DOMAIN ids)
            THEN [scene |-> none, nodes |-> ids, err |-> "not all nodes are in scene"]
            ELSE [scene |-> [Layers |-> SceneLayers(o3, layers), Node |-> top.top],
                  nodes |-> linked.nodes, err |-> Nil]
        Counted(top, linked) == Built(top, linked, nodeCount(linked.nodes, top.top[1], {}))
    IN  Counted(FindRoot(o1, ids, lids, NilPtr), LinkChildren(o2, ids, chs, ids))

\* buildMain: the materials with their colors, or the error; mats[i] with
\* i >= len(mats) panics.
buildMain(ms, palette, materials, scene) ==
    IF Len(palette) # 256
    THEN [main |-> NilPtr, err |-> "expected 256 palette entries"]
    ELSE IF Len(materials) < 256 THEN [main |-> NilPtr, err |-> PanicIndex]
    ELSE [main |-> <<[Models |-> ms,
                    Materials |-> [i \in 1..Len(materials) |->
                                     IF i >= 2 /\ i <= 256
                                     THEN [materials[i] EXCEPT !.Color = palette[i - 1]]
                                     ELSE materials[i]],
                    Scene |-> scene]>>,
          err |-> Nil]

\* parseChunk returned io.EOF: the model count is checked, the scene is
\* built and buildMain makes the result.
AtEOF ==
    IF pack # -1 /\ Len(models) # pack THEN Fail("expected pack models")
    ELSE \E o1 \in RangeOrders(DOMAIN sceneIDs), o2 \in RangeOrders(DOMAIN sceneChildren),
            o3 \in RangeOrders(DOMAIN layerIDs) :
           LET Return(b, m) ==
                   IF b.err # Nil THEN Fail(b.err)
                   ELSE IF m.err # Nil THEN Fail(m.err)
                   ELSE /\ result' = "ok"
                        /\ doc' = m.main
                        /\ sceneIDs' = b.nodes
                        /\ mats' = m.main[1].Materials
                        /\ UNCHANGED <<vr, err, state, pack, models, size, rgba,
                                       sceneChildren, sceneLayer, layerIDs,
                                       ignoredChunks, logged, file, skipped, call, dw>>
               Main(b) == Return(b, buildMain(models, rgba, mats, b.scene))
           IN  Main(buildScene(o1, o2, o3, sceneIDs, sceneChildren, sceneLayer, layerIDs))

(***************************************************************************)
(* The input: chunks as the format writes them.                            *)
(***************************************************************************)
\* The four bytes ReadInt32 decodes to x.
EncInt32(x) ==
    LET low == x % 16777216
        top == IF x < 0 THEN 256 + (x \div 16777216) ELSE x \div 16777216
    IN  <<low % 256, (low \div 256) % 256, low \div 65536, top>>

\* STRING: the length, then the bytes.
EncString(str) == EncInt32(Len(str)) \o str

RECURSIVE EncPairs(_)
EncPairs(ps) ==
    IF ps = <<>> THEN <<>>
    ELSE EncString(Head(ps)[1]) \o EncString(Head(ps)[2]) \o EncPairs(Tail(ps))

\* DICT: the count, then the key/value pairs ps.
EncDict(ps) == EncInt32(Len(ps)) \o EncPairs(ps)

RECURSIVE EncInt32s(_)
EncInt32s(xs) == IF xs = <<>> THEN <<>> ELSE EncInt32(Head(xs)) \o EncInt32s(Tail(xs))

\* A chunk: the tag, the two lengths, the content and the children.
EncChunk(tag, c, cc) == tag \o EncInt32(Len(c)) \o EncInt32(Len(cc)) \o c \o cc

\* The content c as declared, one byte short, and one byte long.
Lengths(c) ==
    {c, c \o <<0>>} \cup (IF c = <<>> THEN {} ELSE {SubSeq(c, 1, Len(c) - 1)})

\* The chunks with the tag and a content of C: with the content as it is, a
\* byte short and a byte long, and with one byte of children.
Chunks(tag, C) ==
    {EncChunk(tag, v, <<>>) : v \in UNION {Lengths(c) : c \in C}}
      \cup {EncChunk(tag, c, <<0>>) : c \in C}

\* The bounds of the files tried.
MaxModels == 1

MaxSceneChunks == 2

MaxLayers == 2

MaxMatl == 1

PackCounts == {-1, 1, 2}

PACKInputs == Chunks(TagPACK, {EncInt32(n) : n \in PackCounts})

SIZEInputs == Chunks(TagSIZE, {EncInt32s(<<30, 20, 10>>)})

XYZIInputs == Chunks(TagXYZI, {EncInt32(1) \o <<1, 2, 3, 166>>})

\* "n"
StrN == <<110>>

\* "1"
Str1 == <<49>>

\* "1,2,3"
Str123 == <<49, 44, 50, 44, 51>>

\* The content of an nTRN chunk.
EncTRN(id, attr, child, reserved, layer, frames) ==
    EncInt32(id) \o EncDict(attr) \o EncInt32(child) \o EncInt32(reserved)
      \o EncInt32(layer) \o EncInt32(Len(frames))
      \o (IF Len(frames) = 0 THEN <<>>
          ELSE IF Len(frames) = 1 THEN EncDict(frames[1])
          ELSE EncDict(frames[1]) \o EncDict(frames[2]))

nTRNInputs ==
    Chunks(TagnTRN,
           {EncTRN(0, <<>>, 1, -1, -1, <<<<>>>>),
            EncTRN(0, <<<<KeyName, StrN>>, <<KeyHidden, Str1>>>>, 1, -1, -1,
                   <<<<<<KeyR, Str1>>, <<KeyT, Str123>>>>>>),
            EncTRN(0, <<>>, 1, 0, -1, <<<<>>>>),
            EncTRN(0, <<>>, 1, -1, -1, <<<<>>, <<>>>>),
            EncTRN(0, <<<<StrN, Str1>>>>, 1, -1, -1, <<<<>>>>)})

nGRPInputs ==
    Chunks(TagnGRP, {EncInt32(1) \o EncDict(<<>>) \o EncInt32(1) \o EncInt32(2)})

\* The content of an nSHP chunk with one model.
EncSHP(id, model) ==
    EncInt32(id) \o EncDict(<<>>) \o EncInt32(1) \o EncInt32(model) \o EncDict(<<>>)

nSHPInputs == Chunks(TagnSHP, {EncSHP(1, 0), EncSHP(2, 0), EncSHP(1, 1)})

LAYRInputs ==
    Chunks(TagLAYR, {EncInt32(0) \o EncDict(<<>>) \o EncInt32(-1),
                     EncInt32(0) \o EncDict(<<>>) \o EncInt32(0)})

\* The palette of the files: entry k (from 0) is the color (k, 255 - k, 0, 255).
PaletteBytes ==
    [i \in 1..(4 * PaletteLen) |->
        LET k == (i - 1) \div 4 IN
        IF i % 4 = 1 THEN k ELSE IF i % 4 = 2 THEN 255 - k ELSE IF i % 4 = 3 THEN 0 ELSE 255]

RGBAInputs == Chunks(TagRGBA, {PaletteBytes})

MATLInputs ==
    Chunks(TagMATL, {EncInt32(255) \o EncDict(<<<<KeyType, StrMetal>>>>),
                     EncInt32(0) \o EncDict(<<<<KeyType, StrDiffuse>>>>),
                     EncInt32(256) \o EncDict(<<<<KeyType, StrDiffuse>>>>),
                     EncInt32(255) \o EncDict(<<>>),
                     EncInt32(255) \o EncDict(<<<<KeyType, StrMetal>>, <<StrN, Str1>>>>)})

\* "IMAP", a tag the switch does not know.
TagIMAP == <<73, 77, 65, 80>>

UnknownInputs == {EncChunk(TagrOBJ, <<>>, <<>>), EncChunk(TagIMAP, <<7>>, <<0>>)}

\* The first n bytes of b.
Prefix(b, n) == SubSeq(b, 1, n)

\* The ends of a MAIN block inside a chunk: a SIZE chunk cut inside its tag
\* (2), after the tag (4), inside and after N (6, 8), inside and after M (10,
\* 12, where the 12 bytes of content are missing) and inside the content
\* (14); and a PACK chunk that declares one byte of children and ends after
\* its content.
TruncatedInputs ==
    {Prefix(EncChunk(TagSIZE, EncInt32s(<<30, 20, 10>>), <<>>), n) :
        n \in {2, 4, 6, 8, 10, 12, 14}}
      \cup {TagPACK \o EncInt32(4) \o EncInt32(1) \o EncInt32(1)}

\* Chunks that declare a negative length: of the content, of the children,
\* and of a key of the dict of a LAYR chunk.
BadLengthInputs ==
    {TagSIZE \o EncInt32(-1) \o EncInt32(0),
     TagSIZE \o EncInt32(0) \o EncInt32(-1),
     EncChunk(TagLAYR, EncInt32(0) \o EncInt32(1) \o EncInt32(-1), <<>>)}

\* A file: the magic, the version, the root chunk and what follows it.
EncFile(magic, ver, tag, c, cc, after) ==
    magic \o EncInt32(ver) \o EncChunk(tag, c, cc) \o after

\* The children of MAIN as Parse sees them: a block of bytes it hands on
\* without looking into it.  The chunks of the block are the ones the turns
\* of the loop read.
MainBlock == <<0, 0, 0>>

\* The file whose header, root chunk and end are as the format has them.
GoodFile == EncFile(StrVOX, version, TagMAIN, <<>>, MainBlock, <<>>)

\* "VOX!"
StrVOXBang == <<86, 79, 88, 33>>

\* The files Parse is called on: the good file; the good file with one and
\* with two bytes after the MAIN chunk; a wrong magic, two wrong versions, a
\* root chunk that is not MAIN, a MAIN chunk with content; the good file cut
\* inside the header, after the header, inside the root chunk and inside
\* the children; a MAIN chunk that declares a negative content length; and
\* the empty input.
HeaderInputs ==
    {GoodFile,
     EncFile(StrVOX, version, TagMAIN, <<>>, MainBlock, <<0>>),
     EncFile(StrVOX, version, TagMAIN, <<>>, MainBlock, <<0, 0>>),
     EncFile(StrVOXBang, version, TagMAIN, <<>>, MainBlock, <<>>),
     EncFile(StrVOX, version - 1, TagMAIN, <<>>, MainBlock, <<>>),
     EncFile(StrVOX, 200, TagMAIN, <<>>, MainBlock, <<>>),
     EncFile(StrVOX, version, TagPACK, <<>>, MainBlock, <<>>),
     EncFile(StrVOX, version, TagMAIN, <<0>>, MainBlock, <<>>),
     StrVOX \o EncInt32(version) \o TagMAIN \o EncInt32(-1) \o EncInt32(0),
     <<>>}
      \cup {Prefix(GoodFile, n) : n \in {3, 6, 8, 12, 16, 20, 22}}

(***************************************************************************)
(* The loop of parseMainChunks, one chunk a step.                          *)
(***************************************************************************)
\* What one turn of the loop reads from the bytes b, the rest of the input
\* that is looked at: the chunk parseChunk returns and, by the tag of the
\* switch, what the decoder of the chunk returns.
Decode(b) ==
    LET Decoded(ch) ==
            [ch |-> ch,
             p |-> IF ch.err # Nil THEN [err |-> ch.err]
                   ELSE IF ch.ID = TagPACK THEN parsePackChunk(ch.contents)
                   ELSE IF ch.ID = TagSIZE THEN parseSizeChunk(ch.contents)
                   ELSE IF ch.ID = TagXYZI THEN parseXYZIChunk(ch.contents)
                   ELSE IF ch.ID = TagnTRN THEN parsenTRNChunk(ch.contents)
                   ELSE IF ch.ID = TagnGRP THEN parsenGRPChunk(ch.contents)
                   ELSE IF ch.ID = TagnSHP THEN parsenSHPChunk(ch.contents)
                   ELSE IF ch.ID = TagLAYR THEN parseLAYRChunk(ch.contents)
                   ELSE IF ch.ID = TagRGBA THEN parseRGBAChunk(ch.contents)
                   ELSE IF ch.ID = TagMATL THEN parseMatlChunk(ch.contents)
                   ELSE [err |-> Nil]]
    IN  Decoded(parseChunk(NewReader(b)))

\* One turn of the loop on what was read: the return at the end of the
\* input or on an error of parseChunk, then the switch.
Step(d) ==
    LET ch == d.ch
        cc == ch.childContents
        h == [id |-> ch.ID, n |-> Len(ch.contents), m |-> Len(cc)]
    IN  IF ch.err = EOF THEN AtEOF
        ELSE IF ch.err # Nil THEN Fail(ch.err)
        ELSE IF ch.ID = TagPACK THEN CasePACK(d.p, cc, h)
        ELSE IF ch.ID = TagSIZE THEN CaseSIZE(d.p, cc, h)
        ELSE IF ch.ID = TagXYZI THEN CaseXYZI(d.p, cc, h)
        ELSE IF ch.ID = TagnTRN THEN CasenTRN(d.p, cc, h)
        ELSE IF ch.ID = TagnGRP THEN CasenGRP(d.p, cc, h)
        ELSE IF ch.ID = TagnSHP THEN CasenSHP(d.p, cc, h)
        ELSE IF ch.ID = TagLAYR THEN CaseLAYR(d.p, cc, h)
        ELSE IF ch.ID = TagRGBA THEN CaseRGBA(d.p, cc, h)
        ELSE IF ch.ID = TagMATL THEN CaseMATL(d.p, cc, h)
        ELSE CaseDefault(ch.ID, cc, h)

\* The inputs of each kind as the loop reads them.
PACKReads == {Decode(b) : b \in PACKInputs}

SIZEReads == {Decode(b) : b \in SIZEInputs}

XYZIReads == {Decode(b) : b \in XYZIInputs}

nTRNReads == {Decode(b) : b \in nTRNInputs}

nGRPReads == {Decode(b) : b \in nGRPInputs}

nSHPReads == {Decode(b) : b \in nSHPInputs}

LAYRReads == {Decode(b) : b \in LAYRInputs}

RGBAReads == {Decode(b) : b \in RGBAInputs}

MATLReads == {Decode(b) : b \in MATLInputs}

UnknownReads == {Decode(b) : b \in UnknownInputs}

EndRead == Decode(<<>>)

TruncatedReads == {Decode(b) : b \in TruncatedInputs}

BadLengthReads == {Decode(b) : b \in BadLengthInputs}

HeaderReads == {Parse(b) : b \in HeaderInputs}

\* Parse from its start to the loop of parseMainChunks, or to its return on
\* an error; p is what Parse has when it is done with the header.
ParseStart(p) ==
    /\ vr' = <<p.vr>>
    /\ result' = IF p.err = Nil THEN "running" ELSE IF IsPanic(p.err) THEN "panic" ELSE "error"
    /\ err' = p.err
    /\ UNCHANGED <<doc, state, pack, models, size, rgba, mats, sceneIDs, sceneChildren,
                   sceneLayer, layerIDs, ignoredChunks, logged, file, skipped, call, dw>>

\* The number of chunks consumed with a tag of T.
Count(T) == Cardinality({i \in 1..Len(file) : file[i].id \in T})

SceneTags == {TagnTRN, TagnGRP, TagnSHP}

\* Parse is called on the good file.
ParseGoodFile == result = "start" /\ ParseStart(Parse(GoodFile))

\* Parse is called on any of the files.
ParseHeader == result = "start" /\ \E p \in HeaderReads : ParseStart(p)

ChunkPACK == result = "running" /\ \E d \in PACKReads : Step(d)

ChunkSIZE ==
    result = "running" /\ Count({TagSIZE}) < MaxModels /\ \E d \in SIZEReads : Step(d)

ChunkXYZI ==
    result = "running" /\ Count({TagXYZI}) < MaxModels /\ \E d \in XYZIReads : Step(d)

ChunknTRN ==
    result = "running" /\ Count(SceneTags) < MaxSceneChunks /\ \E d \in nTRNReads : Step(d)

ChunknGRP ==
    result = "running" /\ Count(SceneTags) < MaxSceneChunks /\ \E d \in nGRPReads : Step(d)

ChunknSHP ==
    result = "running" /\ Count(SceneTags) < MaxSceneChunks /\ \E d \in nSHPReads : Step(d)

ChunkLAYR ==
    result = "running" /\ Count({TagLAYR}) < MaxLayers /\ \E d \in LAYRReads : Step(d)

ChunkRGBA == result = "running" /\ \E d \in RGBAReads : Step(d)

ChunkMATL ==
    result = "running" /\ Count({TagMATL}) < MaxMatl /\ \E d \in MATLReads : Step(d)

ChunkUnknown == result = "running" /\ \E d \in UnknownReads : Step(d)

\* The bytes of the MAIN block end inside a chunk.
ChunkTruncated == result = "running" /\ \E d \in TruncatedReads : Step(d)

\* A chunk declares a negative length.
ChunkBadLength == result = "running" /\ \E d \in BadLengthReads : Step(d)

\* The input ends at a chunk boundary.
EndOfInput == result = "running" /\ Step(EndRead)

Next ==
    \/ ParseGoodFile
    \/ ChunkPACK
    \/ ChunkSIZE
    \/ ChunkXYZI
    \/ ChunknTRN
    \/ ChunknGRP
    \/ ChunknSHP
    \/ ChunkLAYR
    \/ ChunkRGBA
    \/ ChunkMATL
    \/ ChunkUnknown
    \/ EndOfInput

Spec == Init /\ [][Next]_vars

(***************************************************************************)
(* Files whose scene graph varies: the same loop, read from files with up  *)
(* to MaxNodes scene chunks of many shapes and, around them, one model,    *)
(* one layer, the palette and the material 255.                            *)
(***************************************************************************)
MaxNodes == 4

\* The nTRN chunks of the node id: the child is the next id; the layer is
\* -1 (the root), 0 (the LAYR chunk of the files) or 1 (no LAYR chunk).
SceneTRNInputs ==
    {EncChunk(TagnTRN, EncTRN(id, <<>>, id + 1, -1, layer, <<<<>>>>), <<>>) :
        id \in 0..(MaxNodes - 1), layer \in {-1, 0, 1}}

\* The content of an nGRP chunk.
EncGRP(id, children) ==
    EncInt32(id) \o EncDict(<<>>) \o EncInt32(Len(children)) \o EncInt32s(children)

\* The nGRP chunks of the node id: the next id twice, and the next two ids
\* with the later one first.
SceneGRPInputs ==
    UNION {{EncChunk(TagnGRP, EncGRP(id, <<id + 1, id + 1>>), <<>>),
            EncChunk(TagnGRP, EncGRP(id, <<id + 2, id + 1>>), <<>>)} :
              id \in 0..(MaxNodes - 1)}

\* The nSHP chunks: a shape of the one model of the files.
SceneSHPInputs == {EncChunk(TagnSHP, EncSHP(id, 0), <<>>) : id \in 0..(MaxNodes - 1)}

SceneTRNReads == {Decode(b) : b \in SceneTRNInputs}

SceneGRPReads == {Decode(b) : b \in SceneGRPInputs}

SceneSHPReads == {Decode(b) : b \in SceneSHPInputs}

SceneSIZERead == Decode(EncChunk(TagSIZE, EncInt32s(<<30, 20, 10>>), <<>>))

SceneXYZIRead == Decode(EncChunk(TagXYZI, EncInt32(1) \o <<1, 2, 3, 166>>, <<>>))

SceneLAYRRead == Decode(EncChunk(TagLAYR, EncInt32(0) \o EncDict(<<>>) \o EncInt32(-1), <<>>))

SceneRGBARead == Decode(EncChunk(TagRGBA, PaletteBytes, <<>>))

SceneMATLRead ==
    Decode(EncChunk(TagMATL, EncInt32(255) \o EncDict(<<<<KeyType, StrMetal>>>>), <<>>))

\* The files number their nodes 0, 1, 2, ... in the order of the chunks.
NextID == Cardinality(DOMAIN sceneIDs)

SceneSIZE == result = "running" /\ Count({TagSIZE}) = 0 /\ Step(SceneSIZERead)

SceneXYZI == result = "running" /\ Count({TagXYZI}) = 0 /\ Step(SceneXYZIRead)

SceneTRN ==
    /\ result = "running"
    /\ NextID < MaxNodes
    /\ \E d \in SceneTRNReads : d.p.id = NextID /\ Step(d)

SceneGRP ==
    /\ result = "running"
    /\ NextID < MaxNodes
    /\ \E d \in SceneGRPReads : d.p.id = NextID /\ Step(d)

SceneSHP ==
    /\ result = "running"
    /\ NextID < MaxNodes
    /\ \E d \in SceneSHPReads : d.p.id = NextID /\ Step(d)

SceneLAYR == result = "running" /\ Count({TagLAYR}) = 0 /\ Step(SceneLAYRRead)

SceneRGBA == result = "running" /\ Count({TagRGBA}) = 0 /\ Step(SceneRGBARead)

SceneMATL == result = "running" /\ Count({TagMATL}) = 0 /\ Step(SceneMATLRead)

NextScene ==
    \/ ParseGoodFile
    \/ SceneSIZE
    \/ SceneXYZI
    \/ SceneTRN
    \/ SceneGRP
    \/ SceneSHP
    \/ SceneLAYR
    \/ SceneRGBA
    \/ SceneMATL
    \/ EndOfInput

SpecScene == Init /\ [][NextScene]_vars

(***************************************************************************)
(* Files whose layers vary as well: the model and the scene chunks as     *)
(* above, then no LAYR chunk, the one of the layer 0, or the ones of the   *)
(* layers 0 and 1.                                                         *)
(***************************************************************************)
OrderLayers == {0, 1}

\* The LAYR chunk of the layer id.
FileLAYR(id) == EncChunk(TagLAYR, EncInt32(id) \o EncDict(<<>>) \o EncInt32(-1), <<>>)

OrderLAYRReads == {Decode(FileLAYR(id)) : id \in OrderLayers}

\* The files number their layers 0, 1, 2, ... in the order of the chunks.
OrderLAYR ==
    /\ result = "running"
    /\ \E d \in OrderLAYRReads : d.p.id = Count({TagLAYR}) /\ Step(d)

NextOrder ==
    \/ ParseGoodFile
    \/ SceneSIZE
    \/ SceneXYZI
    \/ SceneTRN
    \/ SceneGRP
    \/ SceneSHP
    \/ OrderLAYR
    \/ EndOfInput

SpecOrder == Init /\ [][NextOrder]_vars

(***************************************************************************)
(* Files whose models vary: a PACK chunk or none, up to MaxPairs SIZE and  *)
(* XYZI chunks of two sizes and two voxel lists in any order, then a scene *)
(* of one Transform and one Shape, a layer, the palette and the material   *)
(* 255.                                                                    *)
(***************************************************************************)
MaxPairs == 2

\* The model counts of the PACK chunks.
ModelPackCounts == {-1, 0, 1, 2}

ModelSizes == {<<30, 20, 10>>, <<1, 2, 3>>}

\* The voxel lists of the XYZI chunks: no voxel, and two voxels.
ModelVoxels ==
    {<<>>,
     <<[X |-> 1, Y |-> 2, Z |-> 3, ColorIndex |-> 166],
       [X |-> 4, Y |-> 5, Z |-> 6, ColorIndex |-> 7]>>}

RECURSIVE EncVoxels(_)
EncVoxels(vs) ==
    IF vs = <<>> THEN <<>>
    ELSE <<Head(vs).X, Head(vs).Y, Head(vs).Z, Head(vs).ColorIndex>> \o EncVoxels(Tail(vs))

\* The chunks as the format writes them.
FilePACK(n) == EncChunk(TagPACK, EncInt32(n), <<>>)

FileSIZE(sz) == EncChunk(TagSIZE, EncInt32s(sz), <<>>)

FileXYZI(vs) == EncChunk(TagXYZI, EncInt32(Len(vs)) \o EncVoxels(vs), <<>>)

ModelPACKReads == {Decode(FilePACK(n)) : n \in ModelPackCounts}

ModelSIZEReads == {Decode(FileSIZE(sz)) : sz \in ModelSizes}

ModelXYZIReads == {Decode(FileXYZI(vs)) : vs \in ModelVoxels}

\* The scene of the files: the Transform 0, the root, over the Shape 1 of
\* the model 0.
ModelTRNRead == Decode(EncChunk(TagnTRN, EncTRN(0, <<>>, 1, -1, -1, <<<<>>>>), <<>>))

ModelSHPRead == Decode(EncChunk(TagnSHP, EncSHP(1, 0), <<>>))

RECURSIVE EncSHPModels(_)
\* The content of an nSHP chunk with the models ms.
EncSHPModels(ms) ==
    IF ms = <<>> THEN <<>>
    ELSE EncInt32(Head(ms)) \o EncDict(<<>>) \o EncSHPModels(Tail(ms))

EncSHPs(id, ms) == EncInt32(id) \o EncDict(<<>>) \o EncInt32(Len(ms)) \o EncSHPModels(ms)

\* The lists of model ids of the shape 1: models there are, models there
\* are not, a negative id, and no model at all.
ModelSHPLists == {<<0>>, <<1>>, <<0, 1>>, <<1, 1>>, <<-1>>, <<2>>, <<0, 2>>, <<3>>, <<>>}

FileSHP(ms) == EncChunk(TagnSHP, EncSHPs(1, ms), <<>>)

ModelSHPReads == {ModelSHPRead} \cup {Decode(FileSHP(ms)) : ms \in ModelSHPLists}

ModelPACK == result = "running" /\ \E d \in ModelPACKReads : Step(d)

ModelSIZE ==
    result = "running" /\ Count({TagSIZE}) < MaxPairs /\ \E d \in ModelSIZEReads : Step(d)

ModelXYZI ==
    result = "running" /\ Count({TagXYZI}) < MaxPairs /\ \E d \in ModelXYZIReads : Step(d)

ModelTRN == result = "running" /\ Count({TagnTRN}) = 0 /\ Step(ModelTRNRead)

ModelSHP == result = "running" /\ Count({TagnSHP}) = 0 /\ Step(ModelSHPRead)

\* The shape 1 with any of the lists of model ids.
ModelShapes ==
    result = "running" /\ Count({TagnSHP}) = 0 /\ \E d \in ModelSHPReads : Step(d)

NextModels ==
    \/ ParseGoodFile
    \/ ModelPACK
    \/ ModelSIZE
    \/ ModelXYZI
    \/ ModelTRN
    \/ ModelShapes
    \/ SceneLAYR
    \/ SceneRGBA
    \/ SceneMATL
    \/ EndOfInput

SpecModels == Init /\ [][NextModels]_vars

(***************************************************************************)
(* Damaged files: Parse on files whose header, root chunk and end vary,    *)
(* then the loop on the chunks of the files whose models vary and on       *)
(* chunks that are cut short, that declare a negative length, or whose     *)
(* reserved field or frame count is not the one required.                  *)
(***************************************************************************)
\* The chunks whose reserved field or frame count is not the one required:
\* nTRN chunks with the reserved field 0, with two frames and with no
\* frame, and a LAYR chunk with the reserved field 0.
ReservedInputs ==
    {EncChunk(TagnTRN, EncTRN(0, <<>>, 1, 0, -1, <<<<>>>>), <<>>),
     EncChunk(TagnTRN, EncTRN(0, <<>>, 1, -1, -1, <<<<>>, <<>>>>), <<>>),
     EncChunk(TagnTRN, EncTRN(0, <<>>, 1, -1, -1, <<>>), <<>>),
     EncChunk(TagLAYR, EncInt32(0) \o EncDict(<<>>) \o EncInt32(0), <<>>)}

ReservedReads == {Decode(b) : b \in ReservedInputs}

\* A chunk has a reserved field or a frame count that is not the one required.
ChunkReserved == result = "running" /\ \E d \in ReservedReads : Step(d)

NextParse ==
    \/ ParseHeader
    \/ ChunkTruncated
    \/ ChunkBadLength
    \/ ChunkReserved
    \/ ModelPACK
    \/ ModelSIZE
    \/ ModelXYZI
    \/ ModelTRN
    \/ ModelSHP
    \/ SceneLAYR
    \/ SceneRGBA
    \/ SceneMATL
    \/ EndOfInput

SpecParse == Init /\ [][NextParse]_vars

(***************************************************************************)
(* Files with chunks of unrecognized tags at every place.                  *)
(***************************************************************************)
\* The unrecognized chunks: rOBJ, which starts in ignoredChunks, and two
\* different chunks of the tag IMAP, one with content and children.
SkipInputs == UnknownInputs \cup {EncChunk(TagIMAP, <<>>, <<>>)}

SkipReads == {Decode(b) : b \in SkipInputs}

ChunkSkipped == result = "running" /\ \E d \in SkipReads : Step(d)

NextSkip ==
    \/ ParseGoodFile
    \/ ChunkSkipped
    \/ ModelPACK
    \/ SceneSIZE
    \/ SceneXYZI
    \/ ModelTRN
    \/ ModelSHP
    \/ SceneLAYR
    \/ SceneRGBA
    \/ SceneMATL
    \/ EndOfInput

SpecSkip == Init /\ [][NextSkip]_vars

(***************************************************************************)
(* Files whose materials vary.                                             *)
(***************************************************************************)
MaxMaterials == 2

MaterialIDs == {-1, 0, 255, 256}

\* "_none", a material type there is not.
StrNone == <<95, 110, 111, 110, 101>>

\* The dictionaries of the MATL chunks: without _type, with each of the
\* four types, with a type there is not, with a key there is not, with
\* floats that parse and floats that do not, with each of the nine keys,
\* and with _type twice.
MaterialDicts ==
    {<<>>,
     <<<<KeyType, StrMetal>>>>,
     <<<<KeyType, StrDiffuse>>>>,
     <<<<KeyType, StrGlass>>>>,
     <<<<KeyType, StrEmit>>>>,
     <<<<KeyType, StrNone>>>>,
     <<<<KeyType, StrMetal>>, <<StrN, Str1>>>>,
     <<<<StrN, Str1>>>>,
     <<<<KeyWeight, Str1>>>>,
     <<<<KeyType, StrGlass>>, <<KeyRough, StrN>>>>,
     <<<<KeyType, StrGlass>>, <<KeyRough, StrN>>, <<StrN, Str1>>>>,
     <<<<KeyType, StrMetal>>, <<KeyType, StrNone>>>>,
     <<<<KeyType, StrEmit>>, <<KeyWeight, Str1>>, <<KeyRough, Str1>>, <<KeySpec, Str1>>>>,
     <<<<KeyType, StrEmit>>, <<KeyIor, Str1>>, <<KeyAtt, Str1>>, <<KeyFlux, Str1>>>>,
     <<<<KeyType, StrEmit>>, <<KeyPlastic, Str1>>, <<KeyLdr, Str1>>>>}

FileMATL(id, ps) == EncChunk(TagMATL, EncInt32(id) \o EncDict(ps), <<>>)

\* The MATL chunks: the id, the pairs of the dictionary, and what the loop
\* reads from the chunk.  Every id comes with the dictionary of a metal and
\* every dictionary with the id 255.
MaterialCases ==
    {[id |-> id, ps |-> ps, d |-> Decode(FileMATL(id, ps))] :
        id \in MaterialIDs, ps \in {<<<<KeyType, StrMetal>>>>}}
    \cup {[id |-> 255, ps |-> ps, d |-> Decode(FileMATL(255, ps))] : ps \in MaterialDicts}

MaterialReads == {c.d : c \in MaterialCases}

MaterialMATL ==
    result = "running" /\ Count({TagMATL}) < MaxMaterials /\ \E d \in MaterialReads : Step(d)

NextMatl ==
    \/ ParseGoodFile
    \/ SceneSIZE
    \/ SceneXYZI
    \/ ModelTRN
    \/ ModelSHP
    \/ SceneLAYR
    \/ SceneRGBA
    \/ MaterialMATL
    \/ EndOfInput

SpecMatl == Init /\ [][NextMatl]_vars

(***************************************************************************)
(* Matrix3x3: a 3x3 matrix with entries 0, +1, -1 in one uint8.  Rows and  *)
(* columns are numbered from 0 as in the code; a decoded matrix and a      *)
(* vector are functions on 0..2.                                           *)
(***************************************************************************)
\* The bit n of the uint8 v.
Bit(v, n) == (v \div (2 ^ n)) % 2

\* The bitwise or of the uint8 values of the set S: what r holds after
\* r |= v for every v of S, from r = 0.
OrAll(S) ==
    LET B(n) == IF \E v \in S : Bit(v, n) = 1 THEN 2 ^ n ELSE 0
    IN  B(0) + B(1) + B(2) + B(3) + B(4) + B(5) + B(6) + B(7)

eqm3(a, b) == IF a = b THEN 1 ELSE 0

signm3(x) == IF x = 0 THEN 1 ELSE -1

\* The mutant of Valid without the test of the two positions being different.
ValidSamePosition(m) ==
    LET one1 == m % 4
        one2 == (m \div 4) % 4
    IN  Bit(m, 7) = 0 /\ one1 # 3 /\ one2 # 3

\* m&128 == 0 && one1 != one2 && one1 != 3 && one2 != 3
Valid(m) ==
    LET one1 == m % 4
        one2 == (m \div 4) % 4
    IN  Bit(m, 7) = 0 /\ one1 # one2 /\ one1 # 3 /\ one2 # 3

\* The mutant of Get that reads no sign bit.
GetUnsigned(m, i, j) ==
    IF i = 0 THEN eqm3(j, m % 4)
    ELSE IF i = 1 THEN eqm3(j, (m \div 4) % 4)
    ELSE eqm3(j, (3 - (m % 4) - ((m \div 4) % 4)) % 256)

\* The entry of the row i and the column j.  3-(m&3)-((m>>2)&3) is computed
\* in uint8.
Get(m, i, j) ==
    IF i = 0 THEN eqm3(j, m % 4) * signm3(Bit(m, 4))
    ELSE IF i = 1 THEN eqm3(j, (m \div 4) % 4) * signm3(Bit(m, 5))
    ELSE eqm3(j, (3 - (m % 4) - ((m \div 4) % 4)) % 256) * signm3(Bit(m, 6))

\* The mutant of Mul that sets no sign bit.
MulUnsigned(a, b) ==
    LET Body(i, j, k) ==
            LET x == Get(a, i, j) * Get(b, j, k)
            IN  IF x = 0 THEN {}
                ELSE IF i < 2 THEN {(k * (2 ^ (2 * i))) % 256} ELSE {}
    IN  OrAll(UNION {Body(t[1], t[2], t[3]) : t \in (0..2) \X (0..2) \X (0..2)})

\* The mutant of Mul that reads b by columns.
MulTransposed(a, b) ==
    LET Body(i, j, k) ==
            LET x == Get(a, i, j) * Get(b, k, j)
            IN  IF x = 0 THEN {}
                ELSE (IF x < 0 THEN {2 ^ (i + 4)} ELSE {})
                     \cup (IF i < 2 THEN {(k * (2 ^ (2 * i))) % 256} ELSE {})
    IN  OrAll(UNION {Body(t[1], t[2], t[3]) : t \in (0..2) \X (0..2) \X (0..2)})

\* The mutant of Mul that multiplies the other way round.
MulReversed(a, b) ==
    LET Body(i, j, k) ==
            LET x == Get(b, i, j) * Get(a, j, k)
            IN  IF x = 0 THEN {}
                ELSE (IF x < 0 THEN {2 ^ (i + 4)} ELSE {})
                     \cup (IF i < 2 THEN {(k * (2 ^ (2 * i))) % 256} ELSE {})
    IN  OrAll(UNION {Body(t[1], t[2], t[3]) : t \in (0..2) \X (0..2) \X (0..2)})

\* The three loops.  Body is what one turn ors into r: nothing when
\* x := a.Get(i, j) * b.Get(j, k) is 0, else 1 << (i+4) if x < 0 and
\* k << (2*i) if i < 2.
Mul(a, b) ==
    LET Body(i, j, k) ==
            LET x == Get(a, i, j) * Get(b, j, k)
            IN  IF x = 0 THEN {}
                ELSE (IF x < 0 THEN {2 ^ (i + 4)} ELSE {})
                     \cup (IF i < 2 THEN {(k * (2 ^ (2 * i))) % 256} ELSE {})
    IN  OrAll(UNION {Body(t[1], t[2], t[3]) : t \in (0..2) \X (0..2) \X (0..2)})

\* The mutant of MulVec that reads the matrix by columns.
MulVecTransposed(m, x) ==
    [i \in 0..2 |-> Get(m, 0, i) * x[0] + Get(m, 1, i) * x[1] + Get(m, 2, i) * x[2]]

\* r[i] += m.Get(i, j) * x[j], for j = 0, 1, 2.
MulVec(m, x) ==
    [i \in 0..2 |-> Get(m, i, 0) * x[0] + Get(m, i, 1) * x[1] + Get(m, i, 2) * x[2]]

\* The codes of the table of the inverses.
NumCodes == 128

\* The table init fills: for every valid m, the last valid r with
\* m.Mul(r) == 0x04, and 0 where nothing is written.
matInverses ==
    [m \in 0..(NumCodes - 1) |->
        LET rs == {r \in 0..(NumCodes - 1) : Valid(r) /\ Mul(m, r) = 4}
        IN  IF Valid(m) /\ rs # {} THEN CHOOSE r \in rs : \A q \in rs : q <= r ELSE 0]

\* The mutant of Inverse that reads a table init has not filled.
InverseUnfilled(m) == 0

\* if m >= 128 { return 0 }; return matInverses[int(m)]
Inverse(m) ==
    IF m >= 128 THEN 0 ELSE matInverses[m]

\* The matrices of the tests: mat, matFromMatrix3x3, matToMatrix3x3, mul,
\* mulVec, valid and vecSeemsPlausible.
matFromMatrix3x3(m) == [i \in 0..2 |-> [j \in 0..2 |-> Get(m, i, j)]]

matToMatrix3x3(m) ==
    LET Body(i, j) ==
            LET x == m[i][j]
            IN  IF x = 0 THEN {}
                ELSE (IF x < 0 THEN {2 ^ (i + 4)} ELSE {})
                     \cup (IF i < 2 THEN {(j * (2 ^ (2 * i))) % 256} ELSE {})
    IN  OrAll(UNION {Body(t[1], t[2]) : t \in (0..2) \X (0..2)})

mul(a, b) ==
    [i \in 0..2 |-> [k \in 0..2 |->
        a[i][0] * b[0][k] + a[i][1] * b[1][k] + a[i][2] * b[2][k]]]

mulVec(m, v) == [i \in 0..2 |-> m[i][0] * v[0] + m[i][1] * v[1] + m[i][2] * v[2]]

abseq(a, b) == a = b \/ a = 0 - b

\* nil when b is a with its components in some order, each with any sign.
vecSeemsPlausible(a, b) ==
    \E i \in 0..2, j \in 0..2 :
        /\ j # i
        /\ abseq(a[0], b[i]) /\ abseq(a[1], b[j]) /\ abseq(a[2], b[3 - i - j])

(***************************************************************************)
(* The calls of the methods of Matrix3x3, each on arguments of its own.    *)
(***************************************************************************)
\* The values of a Matrix3x3 and the codes without the top bit.
Uint8 == 0..255

Codes == 0..(NumCodes - 1)

\* The components of the vectors are -MaxComponent..MaxComponent.
MaxComponent == 2

Components == (0 - MaxComponent)..MaxComponent

Vectors == {[i \in 0..2 |-> t[i + 1]] : t \in Components \X Components \X Components}

CallValid ==
    /\ call = NoCall
    /\ \E m \in Uint8 : call' = [op |-> "Valid", m |-> m, r |-> Valid(m)]
    /\ UNCHANGED <<vr, result, err, doc, state, pack, models, size, rgba, mats, sceneIDs,
                   sceneChildren, sceneLayer, layerIDs, ignoredChunks, logged, file,
                   skipped, dw>>

CallGet ==
    /\ call = NoCall
    /\ \E m \in Uint8 : call' = [op |-> "Get", m |-> m, r |-> matFromMatrix3x3(m)]
    /\ UNCHANGED <<vr, result, err, doc, state, pack, models, size, rgba, mats, sceneIDs,
                   sceneChildren, sceneLayer, layerIDs, ignoredChunks, logged, file,
                   skipped, dw>>

CallMul ==
    /\ call = NoCall
    /\ \E a \in Codes, b \in Codes :
          call' = [op |-> "Mul", a |-> a, b |-> b, r |-> Mul(a, b)]
    /\ UNCHANGED <<vr, result, err, doc, state, pack, models, size, rgba, mats, sceneIDs,
                   sceneChildren, sceneLayer, layerIDs, ignoredChunks, logged, file,
                   skipped, dw>>

CallInverse ==
    /\ call = NoCall
    /\ \E m \in Uint8 : call' = [op |-> "Inverse", m |-> m, r |-> Inverse(m)]
    /\ UNCHANGED <<vr, result, err, doc, state, pack, models, size, rgba, mats, sceneIDs,
                   sceneChildren, sceneLayer, layerIDs, ignoredChunks, logged, file,
                   skipped, dw>>

CallMulVec ==
    /\ call = NoCall
    /\ \E m \in Codes, x \in Vectors :
          /\ Valid(m)
          /\ call' = [op |-> "MulVec", m |-> m, x |-> x, r |-> MulVec(m, x)]
    /\ UNCHANGED <<vr, result, err, doc, state, pack, models, size, rgba, mats, sceneIDs,
                   sceneChildren, sceneLayer, layerIDs, ignoredChunks, logged, file,
                   skipped, dw>>

NextMatrix ==
    \/ CallValid
    \/ CallGet
    \/ CallMul
    \/ CallInverse
    \/ CallMulVec

SpecMatrix == Init /\ [][NextMatrix]_vars

(***************************************************************************)
(* The calls of the methods of voxReader, in any sequence, on one reader   *)
(* over a byte slice.                                                      *)
(***************************************************************************)
\* The variables of Parse and parseMainChunks other than the reader.
ParseVars ==
    <<result, err, doc, state, pack, models, size, rgba, mats, sceneIDs, sceneChildren,
      sceneLayer, layerIDs, ignoredChunks, logged, file, skipped>>

\* The longest read asked of ReadBytes.
MaxRead == 3

ReadLens == (0 - 1)..MaxRead

\* "A"
StrA == <<65>>

\* The byte slices read from: nothing; one byte; three bytes; a STRING and
\* a byte; a DICT of one pair; a STRING of length -1; a DICT that declares
\* two pairs and holds one key.
CursorInputs ==
    { <<>>, <<3>>, <<1, 0, 0>>, EncString(StrA) \o <<5>>,
      EncDict(<< <<StrN, Str1>> >>), EncInt32(0 - 1),
      EncInt32(2) \o EncString(StrN) }

\* A reader is there and no call on it has panicked.
ReaderLive == vr # NilPtr /\ ~IsPanic(vr[1].err)

\* &voxReader{r: bytes.NewReader(c)}
NewCursor ==
    /\ vr = NilPtr
    /\ \E b \in CursorInputs : vr' = <<NewReader(b)>>
    /\ UNCHANGED <<call, ParseVars, dw>>

CallError ==
    /\ ReaderLive
    /\ call' = [op |-> "Error", before |-> vr[1], r |-> vr[1].err]
    /\ UNCHANGED <<vr, ParseVars, dw>>

CallRequireEOF ==
    /\ ReaderLive
    /\ vr' = <<RequireEOF(vr[1])>>
    /\ call' = [op |-> "RequireEOF", before |-> vr[1]]
    /\ UNCHANGED <<ParseVars, dw>>

CallReadBytes ==
    /\ ReaderLive
    /\ \E n \in ReadLens :
          LET Returned(r) ==
                  /\ vr' = <<r.vr>>
                  /\ call' = [op |-> "ReadBytes", before |-> vr[1], n |-> n, r |-> r.v]
          IN  Returned(ReadBytes(vr[1], n))
    /\ UNCHANGED <<ParseVars, dw>>

CallReadUint8 ==
    /\ ReaderLive
    /\ LET Returned(r) ==
                /\ vr' = <<r.vr>>
                /\ call' = [op |-> "ReadUint8", before |-> vr[1], r |-> r.v]
       IN  Returned(ReadUint8(vr[1]))
    /\ UNCHANGED <<ParseVars, dw>>

CallReadInt32 ==
    /\ ReaderLive
    /\ LET Returned(r) ==
                /\ vr' = <<r.vr>>
                /\ call' = [op |-> "ReadInt32", before |-> vr[1], r |-> r.v]
       IN  Returned(ReadInt32(vr[1]))
    /\ UNCHANGED <<ParseVars, dw>>

\* The length a STRING declares is at most MaxRead here.
CallReadString ==
    /\ ReaderLive
    /\ ReadInt32(vr[1]).v <= MaxRead
    /\ LET Returned(r) ==
                /\ vr' = <<r.vr>>
                /\ call' = [op |-> "ReadString", before |-> vr[1], r |-> r.v]
       IN  Returned(ReadString(vr[1]))
    /\ UNCHANGED <<ParseVars, dw>>

\* The number of pairs a DICT declares is at most MaxRead here.
CallReadDict ==
    /\ ReaderLive
    /\ ReadInt32(vr[1]).v <= MaxRead
    /\ LET Returned(r) ==
                /\ vr' = <<r.vr>>
                /\ call' = [op |-> "ReadDict", before |-> vr[1], r |-> r.v]
       IN  Returned(ReadDict(vr[1]))
    /\ UNCHANGED <<ParseVars, dw>>

NextReader ==
    \/ NewCursor
    \/ CallError
    \/ CallRequireEOF
    \/ CallReadBytes
    \/ CallReadUint8
    \/ CallReadInt32
    \/ CallReadString
    \/ CallReadDict

SpecReader == Init /\ [][NextReader]_vars

(***************************************************************************)
(* DenseWorld: Min and Max are vectors (functions on 0..2), Voxels the     *)
(* slice of the material indices.                                          *)
(***************************************************************************)
\* [3]int{a, b, c}
Vec3(a, b, c) == [i \in 0..2 |-> IF i = 0 THEN a ELSE IF i = 1 THEN b ELSE c]

ErrCuboid == "the upper bounds of the cuboid must be at least as large as the lower bounds"

\* NewDenseWorld without the check of the z axis.
NewDenseWorldNoCheckZ(min, max) ==
    IF max[0] < min[0] \/ max[1] < min[1]
    THEN [dw |-> NilPtr, err |-> ErrCuboid]
    ELSE LET sx == max[0] - min[0] + 1
             sy == max[1] - min[1] + 1
             sz == max[2] - min[2] + 1
         IN  [dw |-> <<[Min |-> min, Max |-> max, Voxels |-> Zeros(sx * sy * sz)]>>,
              err |-> Nil]

\* NewDenseWorld: the pointer to the world (nil on an error) and the error.
NewDenseWorld(min, max) ==
    IF max[0] < min[0] \/ max[1] < min[1] \/ max[2] < min[2]
    THEN [dw |-> NilPtr, err |-> ErrCuboid]
    ELSE LET sx == max[0] - min[0] + 1
             sy == max[1] - min[1] + 1
             sz == max[2] - min[2] + 1
         IN  [dw |-> <<[Min |-> min, Max |-> max, Voxels |-> Zeros(sx * sy * sz)]>>,
              err |-> Nil]

\* MaterialIndex: the value and the ok flag.
MaterialIndex(d, c) ==
    LET SX == d.Max[0] - d.Min[0] + 1
        SY == d.Max[1] - d.Min[1] + 1
        SZ == d.Max[2] - d.Min[2] + 1
        x == c[0] - d.Min[0]
        y == c[1] - d.Min[1]
        z == c[2] - d.Min[2]
    IN  IF x < 0 \/ x >= SX \/ y < 0 \/ y >= SY \/ z < 0 \/ z >= SZ
        THEN [v |-> 0, ok |-> FALSE]
        ELSE [v |-> d.Voxels[z * (SX * SY) + y * SX + x + 1], ok |-> TRUE]

\* SetMaterialIndex with the index taken without the z coordinate.
SetMaterialIndexNoZ(d, c, matIdx) ==
    LET SX == d.Max[0] - d.Min[0] + 1
        SY == d.Max[1] - d.Min[1] + 1
        SZ == d.Max[2] - d.Min[2] + 1
        x == c[0] - d.Min[0]
        y == c[1] - d.Min[1]
        z == c[2] - d.Min[2]
    IN  IF x < 0 \/ x >= SX \/ y < 0 \/ y >= SY \/ z < 0 \/ z >= SZ
        THEN [d |-> d, ok |-> FALSE]
        ELSE [d |-> [d EXCEPT !.Voxels[y * SX + x + 1] = matIdx], ok |-> TRUE]

\* SetMaterialIndex: the world after the call and the flag returned.
SetMaterialIndex(d, c, matIdx) ==
    LET SX == d.Max[0] - d.Min[0] + 1
        SY == d.Max[1] - d.Min[1] + 1
        SZ == d.Max[2] - d.Min[2] + 1
        x == c[0] - d.Min[0]
        y == c[1] - d.Min[1]
        z == c[2] - d.Min[2]
    IN  IF x < 0 \/ x >= SX \/ y < 0 \/ y >= SY \/ z < 0 \/ z >= SZ
        THEN [d |-> d, ok |-> FALSE]
        ELSE [d |-> [d EXCEPT !.Voxels[z * (SX * SY) + y * SX + x + 1] = matIdx],
              ok |-> TRUE]

RECURSIVE ResizeLoop(_, _, _, _)
\* for i, c := range d.Voxels { ...; ndw.SetMaterialIndex(..., c) }, the
\* iterations from the index i up to the index n, n excluded: the new world
\* after them.  The iterations run in the order of the indices; a run of
\* more than one is taken as its first half followed by its second half,
\* which starts from the world the first half has made (SetMaterialIndex
\* leaves the bounds of the world alone).
ResizeLoop(d, i, n, ndw) ==
    IF i >= n THEN ndw
    ELSE IF n = i + 1
    THEN LET SX == d.Max[0] - d.Min[0] + 1
             SY == d.Max[1] - d.Min[1] + 1
             x == i % SX
             y == ((i - x) \div SX) % SY
             z == ((i - x) \div SX) \div SY
         IN  SetMaterialIndex(ndw, Vec3(x + d.Min[0], y + d.Min[1], z + d.Min[2]),
                              d.Voxels[i + 1]).d
    ELSE LET mid == (i + n) \div 2
             Rest(half) ==
                 IF half.Min = ndw.Min THEN ResizeLoop(d, mid, n, half) ELSE half
         IN  Rest(ResizeLoop(d, i, mid, ndw))

\* Resize without the loop that copies.
ResizeNoCopy(d, min, max) ==
    IF min = d.Min /\ max = d.Max THEN [d |-> d, err |-> Nil]
    ELSE LET Made(new) ==
                 IF new.err # Nil THEN [d |-> d, err |-> new.err]
                 ELSE [d |-> new.dw[1], err |-> Nil]
         IN  Made(NewDenseWorld(min, max))

\* Resize: the world after the call and the error.
Resize(d, min, max) ==
    IF min = d.Min /\ max = d.Max THEN [d |-> d, err |-> Nil]
    ELSE LET Made(new) ==
                 IF new.err # Nil THEN [d |-> d, err |-> new.err]
                 ELSE [d |-> ResizeLoop(d, 0, Len(d.Voxels), new.dw[1]), err |-> Nil]
         IN  Made(NewDenseWorld(min, max))

\* addVec adding the first components only.
addVecFirst(a, b) ==
    Vec3(a[0] + b[0], a[1], a[2])

addVec(a, b) ==
    Vec3(a[0] + b[0], a[1] + b[1], a[2] + b[2])

abs(x) == IF x < 0 THEN 0 - x ELSE x

\* a / b of Go for b > 0: the quotient truncated toward zero.
Quo(a, b) == IF a < 0 THEN 0 - ((0 - a) \div b) ELSE a \div b

\* The corners (i, j, k) in the order of the three loops.
CornerSteps ==
    <<Vec3(0, 0, 0), Vec3(0, 0, 1), Vec3(0, 1, 0), Vec3(0, 1, 1),
      Vec3(1, 0, 0), Vec3(1, 0, 1), Vec3(1, 1, 0), Vec3(1, 1, 1)>>

RECURSIVE CornerLoop(_, _, _, _)
\* The three loops over i, j, k from the step n on.  minCorner starts as
\* math.MaxInt64 three times, which every int is <= to: mc is <<>> for that
\* start and <<corner>> after an assignment.
CornerLoop(mat, m, n, mc) ==
    IF n > Len(CornerSteps) THEN mc[1]
    ELSE LET c == CornerSteps[n]
             Compared(mx) ==
                 IF mc = <<>> \/ (mx[0] <= mc[1][0] /\ mx[1] <= mc[1][1] /\ mx[2] <= mc[1][2])
                 THEN CornerLoop(mat, m, n + 1, <<mx>>)
                 ELSE CornerLoop(mat, m, n + 1, mc)
         IN  Compared(MulVec(mat, Vec3(c[0] * (m.X - 1), c[1] * (m.Y - 1), c[2] * (m.Z - 1))))

\* minCorner kept at the first corner, the rotated origin.
minCornerFirst(mat, m) ==
    MulVec(mat, Vec3(0, 0, 0))

\* minCorner after the loops.
minCorner(mat, m) ==
    CornerLoop(mat, m, 1, <<>>)

ErrMessedUp == "rotation/translation is messed up"

RECURSIVE VoxelLoop(_, _, _, _)
\* for _, vox := range m.V { ... }: the world with the voxels vs set, or the
\* error of the first voxel out of bounds.
VoxelLoop(mat, trn, vs, d) ==
    IF vs = <<>> THEN [dw |-> <<d>>, err |-> Nil]
    ELSE LET vox == Head(vs)
             Set(set) ==
                 IF ~set.ok THEN [dw |-> NilPtr, err |-> ErrMessedUp]
                 ELSE VoxelLoop(mat, trn, Tail(vs), set.d)
         IN  Set(SetMaterialIndex(d, addVec(MulVec(mat, Vec3(vox.X, vox.Y, vox.Z)), trn),
                                  vox.ColorIndex))

\* DenseWorldFromModel: the pointer to the world (nil on an error) and the
\* error.
DenseWorldFromModel(tf, m) ==
    LET Filled(min, new, mc) ==
            IF new.err # Nil THEN [dw |-> NilPtr, err |-> new.err]
            ELSE VoxelLoop(tf.R, Vec3(min[0] - mc[0], min[1] - mc[1], min[2] - mc[2]),
                           m.V, new.dw[1])
        Made(min, max) == Filled(min, NewDenseWorld(min, max), minCorner(tf.R, m))
        Placed(mv, min) ==
            Made(addVec(min, tf.T),
                 addVec(Vec3(mv[0] + min[0], mv[1] + min[1], mv[2] + min[2]), tf.T))
        Centred(mv) == Placed(mv, Vec3(0 - Quo(mv[0], 2), 0 - Quo(mv[1], 2), 0 - Quo(mv[2], 2)))
        Sized(mv) == Centred(Vec3(abs(mv[0]) - 1, abs(mv[1]) - 1, abs(mv[2]) - 1))
    IN  Sized(MulVec(tf.R, Vec3(m.X, m.Y, m.Z)))

\* countVoxels of the test: the cells that are not 0 among those with
\* Min <= c < Max on every axis.
countVoxels(d) ==
    Cardinality({c \in (d.Min[0]..(d.Max[0] - 1)) \X (d.Min[1]..(d.Max[1] - 1))
                        \X (d.Min[2]..(d.Max[2] - 1)) :
                    MaterialIndex(d, Vec3(c[1], c[2], c[3])).v # 0})

(***************************************************************************)
(* The calls that make a world: NewDenseWorld on two corners, and          *)
(* DenseWorldFromModel on a rotation, a translation and a model.           *)
(***************************************************************************)
\* The corners of the cuboids.
Corners == {Vec3(0, 0, 0), Vec3(0 - 1, 0, 0), Vec3(1, 2, 1), Vec3(0, 1, 0), Vec3(0, 0, 1)}

\* The translations of TestDenseWorldFromModel.
Translations ==
    {Vec3(0, 0, 0), Vec3(0 - 100, 0, 5), Vec3(213, 42, 64), Vec3(0 - 500, 600, 0 - 700)}

Vox(x, y, z, c) == [X |-> x, Y |-> y, Z |-> z, ColorIndex |-> c]

\* The models: two voxels in opposite corners; two voxels at one position;
\* one voxel in a model of one cell; three voxels, one of the color 0; a
\* model of the size 0 on one axis; a voxel outside of the model; a model
\* without voxels; a model of a negative size.
WorldModels ==
    { [X |-> 2, Y |-> 3, Z |-> 1, V |-> <<Vox(0, 0, 0, 1), Vox(1, 2, 0, 2)>>],
      [X |-> 2, Y |-> 3, Z |-> 1, V |-> <<Vox(1, 1, 0, 5), Vox(1, 1, 0, 6)>>],
      [X |-> 1, Y |-> 1, Z |-> 1, V |-> <<Vox(0, 0, 0, 255)>>],
      [X |-> 2, Y |-> 2, Z |-> 2,
       V |-> <<Vox(0, 0, 0, 1), Vox(1, 0, 1, 3), Vox(1, 1, 1, 0)>>],
      [X |-> 0, Y |-> 2, Z |-> 1, V |-> <<>>],
      [X |-> 2, Y |-> 3, Z |-> 1, V |-> <<Vox(2, 0, 0, 1)>>],
      [X |-> 3, Y |-> 1, Z |-> 2, V |-> <<>>],
      [X |-> 0 - 2, Y |-> 1, Z |-> 1, V |-> <<>>] }

CallNewDenseWorld ==
    /\ dw = NilPtr
    /\ call = NoCall
    /\ \E min \in Corners, max \in Corners :
          LET Returned(new) ==
                  /\ dw' = new.dw
                  /\ call' = [op |-> "NewDenseWorld", min |-> min, max |-> max,
                               err |-> new.err]
          IN  Returned(NewDenseWorld(min, max))
    /\ UNCHANGED <<vr, ParseVars>>

CallDenseWorldFromModel ==
    /\ dw = NilPtr
    /\ call = NoCall
    /\ \E R \in Codes, T \in Translations, m \in WorldModels :
          LET Returned(tf, made) ==
                  /\ dw' = made.dw
                  /\ call' = [op |-> "DenseWorldFromModel", tf |-> tf, m |-> m,
                               err |-> made.err]
          IN  Returned([R |-> R, T |-> T], DenseWorldFromModel([R |-> R, T |-> T], m))
    /\ UNCHANGED <<vr, ParseVars>>

NextMake ==
    \/ CallNewDenseWorld
    \/ CallDenseWorldFromModel

SpecMake == Init /\ [][NextMake]_vars

(***************************************************************************)
(* The calls of the methods of one DenseWorld, in any sequence.            *)
(***************************************************************************)
\* The coordinates the methods are called on: four inside of the largest
\* cuboid, and one past each of its faces.
Coords ==
    {Vec3(0, 0, 0), Vec3(1, 2, 1), Vec3(0, 1, 0), Vec3(0 - 1, 0, 0),
     Vec3(2, 0, 0), Vec3(0, 0 - 1, 0), Vec3(0, 3, 1), Vec3(0, 0, 2), Vec3(0, 0, 0 - 1),
     Vec3(0 - 2, 0, 0)}

MaterialValues == {0, 1, 255}

CallSetMaterialIndex ==
    /\ dw # NilPtr
    /\ \E c \in Coords, matIdx \in MaterialValues :
          LET Returned(set) ==
                  /\ dw' = <<set.d>>
                  /\ call' = [op |-> "SetMaterialIndex", before |-> dw[1], c |-> c,
                               matIdx |-> matIdx, ok |-> set.ok]
          IN  Returned(SetMaterialIndex(dw[1], c, matIdx))
    /\ UNCHANGED <<vr, ParseVars>>

CallMaterialIndex ==
    /\ dw # NilPtr
    /\ \E c \in Coords :
          LET Returned(got) ==
                  call' = [op |-> "MaterialIndex", before |-> dw[1], c |-> c,
                           v |-> got.v, ok |-> got.ok]
          IN  Returned(MaterialIndex(dw[1], c))
    /\ UNCHANGED <<dw, vr, ParseVars>>

CallResize ==
    /\ dw # NilPtr
    /\ \E min \in Corners, max \in Corners :
          LET Returned(resized) ==
                  /\ dw' = <<resized.d>>
                  /\ call' = [op |-> "Resize", before |-> dw[1], min |-> min, max |-> max,
                               err |-> resized.err]
          IN  Returned(Resize(dw[1], min, max))
    /\ UNCHANGED <<vr, ParseVars>>

NextWorld ==
    \/ CallNewDenseWorld
    \/ CallSetMaterialIndex
    \/ CallMaterialIndex
    \/ CallResize

SpecWorld == Init /\ [][NextWorld]_vars

(***************************************************************************)
(* The properties.                                                         *)
(***************************************************************************)
\* The place of a recognized tag in the order of the format.
Rank(tag) ==
    IF tag = TagPACK THEN 0
    ELSE IF tag \in {TagSIZE, TagXYZI} THEN 1
    ELSE IF tag \in SceneTags THEN 2
    ELSE IF tag = TagLAYR THEN 3
    ELSE IF tag = TagRGBA THEN 4
    ELSE 5

\* The tags of the recognized chunks consumed, in order.
FileTags == [i \in 1..Len(file) |-> file[i].id]

\* C1: the recognized chunks a parse has consumed, and so those of every
\* file parsed with success, stand in the order PACK, SIZE/XYZI, scene
\* chunks, LAYR, RGBA, MATL, with at most one PACK and at most one RGBA: a
\* chunk out of its place ends the parse with an error.
C1_ChunkOrder ==
    /\ \A i, j \in 1..Len(file) : i < j => Rank(file[i].id) <= Rank(file[j].id)
    /\ Count({TagPACK}) <= 1
    /\ Count({TagRGBA}) <= 1
    /\ result = "ok" => Count({TagRGBA}) = 1

C1_Witness == result = "ok" /\ {Rank(file[i].id) : i \in 1..Len(file)} = 0..5

\* The chunks of the minimal file before its RGBA chunk have been consumed.
MinimalPrefix ==
    /\ result = "running"
    /\ FileTags = <<TagPACK, TagSIZE, TagXYZI, TagnTRN, TagnSHP>>
    /\ pack = 1
    /\ Len(models) = 1
    /\ <<models[1].X, models[1].Y, models[1].Z>> = <<30, 20, 10>>
    /\ skipped = {}

\* C2: the minimal file parses: after PACK = 1, SIZE {30, 20, 10}, XYZI and
\* the scene nTRN -> nSHP, with no LAYR chunk, the RGBA chunk of 256 entries
\* is accepted and the parse goes on.
C2_MinimalFileParses ==
    [][(MinimalPrefix /\ Step(SceneRGBARead)) => result' = "running"]_vars

\* The scene of the chunks consumed can be built, and the model count is the
\* one PACK declared.
SceneBuilds ==
    /\ pack # -1 => Len(models) = pack
    /\ \A o1 \in RangeOrders(DOMAIN sceneIDs), o2 \in RangeOrders(DOMAIN sceneChildren),
          o3 \in RangeOrders(DOMAIN layerIDs) :
          buildScene(o1, o2, o3, sceneIDs, sceneChildren, sceneLayer, layerIDs).err = Nil

\* C3: whatever MATL chunks a well-formed file has, the end of the input
\* gives a Document whose materials cover 1..255, material i with the color
\* of the palette entry i - 1.
C3_MaterialsCoverPalette ==
    [][(result = "running" /\ Len(rgba) = PaletteLen /\ SceneBuilds /\ Step(EndRead))
         => /\ result' = "ok"
            /\ Len(doc'[1].Materials) >= 256
            /\ \A i \in 1..255 : doc'[1].Materials[i + 1].Color = rgba[i]]_vars

\* The ids the node id names as children, in order (after a parse with
\* success the nodes of sceneIDs carry their links).
Kids(id) ==
    LET n == sceneIDs[id] IN
    IF n.kind = "Transform" THEN n.Child
    ELSE IF n.kind = "Group" THEN n.Children
    ELSE <<>>

KidSet(id) == {Kids(id)[i] : i \in 1..Len(Kids(id))}

RECURSIVE ReachFrom(_)
\* The least set of nodes that holds S and the children of its nodes.
ReachFrom(S) ==
    LET T == S \cup UNION {KidSet(id) : id \in S} IN
    IF T = S THEN S ELSE ReachFrom(T)

\* The number of times the node c is named as a child.
InRefs(c) ==
    Cardinality(UNION {{<<id, i>> : i \in {j \in 1..Len(Kids(id)) : Kids(id)[j] = c}} :
                          id \in DOMAIN sceneIDs})

\* The Transform nodes of layer -1.
Roots ==
    {k \in DOMAIN sceneIDs :
        sceneIDs[k].kind = "Transform" /\ k \in DOMAIN sceneLayer /\ sceneLayer[k] = -1}

\* C4: after a parse with success every parsed node is reached from the
\* root by child links.
C4_AllNodesReachable ==
    result = "ok" => ReachFrom({doc[1].Scene.Node[1]}) = DOMAIN sceneIDs

\* C5: after a parse with success the scene is a tree: the root is nobody's
\* child and every other node is named as a child exactly once.
C5_SceneIsTree ==
    result = "ok" =>
        \A c \in DOMAIN sceneIDs :
            InRefs(c) = (IF <<c>> = doc[1].Scene.Node THEN 0 ELSE 1)

\* C6: a parse succeeds only if exactly one Transform node has the layer
\* -1, and that node is the root of the scene.
C6_ExactlyOneRoot ==
    result = "ok" => Cardinality(Roots) = 1 /\ Roots = {doc[1].Scene.Node[1]}

C6_Witness ==
    /\ result = "ok"
    /\ Cardinality({k \in DOMAIN sceneIDs : sceneIDs[k].kind = "Transform"}) >= 2
    /\ Cardinality(Roots) = 1

\* C7: a parse succeeds only if every declared child id is a parsed node;
\* then a Transform node has the one child it declared and a Group node has
\* the children it declared, in the declared order.
C7_ChildrenResolve ==
    result = "ok" =>
        \A id \in DOMAIN sceneChildren :
            /\ \A i \in 1..Len(sceneChildren[id]) : sceneChildren[id][i] \in DOMAIN sceneIDs
            /\ Kids(id) = sceneChildren[id]
            /\ sceneIDs[id].kind = "Transform" => Len(Kids(id)) = 1

C7_Witness ==
    /\ result = "ok"
    /\ \E id \in DOMAIN sceneIDs :
          /\ sceneIDs[id].kind = "Group"
          /\ Len(Kids(id)) = 2
          /\ Kids(id)[1] > Kids(id)[2]
    /\ \E id \in DOMAIN sceneIDs : sceneIDs[id].kind = "Transform" /\ Len(Kids(id)) = 1

\* C8: a parse succeeds only if the layer of every Transform node is -1 or
\* the id of a parsed LAYR chunk.
C8_LayerExists ==
    result = "ok" =>
        \A k \in DOMAIN sceneLayer :
            sceneLayer[k] = -1 \/ sceneLayer[k] \in DOMAIN layerIDs

\* C9: no chunk that was read past, recognized or not, declared children.
C9_NoChildrenAnyKind ==
    /\ \A i \in 1..Len(file) : file[i].m = 0
    /\ \A h \in skipped : h.m = 0

\* C10: the content of every chunk of a fixed layout that was read past has
\* the length its decoder reads: 4 bytes for PACK, 12 for SIZE and 256 x 4
\* for RGBA.
C10_ExactContent ==
    \A i \in 1..Len(file) :
        /\ file[i].id = TagPACK => file[i].n = 4
        /\ file[i].id = TagSIZE => file[i].n = 12
        /\ file[i].id = TagRGBA => file[i].n = 4 * PaletteLen

\* C11: the end of the bytes inside a chunk (after the tag, after one or
\* both lengths, before the declared content or children are complete) is
\* never taken for the end of the input at a chunk boundary: no parse
\* succeeds on it.
C11_EndOnlyAtBoundary ==
    [][\A d \in TruncatedReads : (result = "running" /\ Step(d)) => result' # "ok"]_vars

\* The input Parse was called on.
Input == vr[1].buf

\* The bytes of the input b after its root chunk: the chunk starts after the
\* 8 bytes of the header and has 12 bytes of tag and lengths, N bytes of
\* content and M bytes of children.
AfterMain(b) ==
    LET N == Int32OfBytes(SubSeq(b, 13, 16))
        M == Int32OfBytes(SubSeq(b, 17, 20))
    IN  SubSeq(b, 21 + N + M, Len(b))

\* C12: a parse succeeds only if no byte follows the MAIN chunk in the
\* input.
C12_NothingAfterMain == result = "ok" => AfterMain(Input) = <<>>

\* The input b starts with "VOX ", the version 150, the tag "MAIN" and a
\* content length of 0.
HeaderGood(b) ==
    /\ Len(b) >= 16
    /\ SubSeq(b, 1, 4) = StrVOX
    /\ Int32OfBytes(SubSeq(b, 5, 8)) = version
    /\ SubSeq(b, 9, 12) = TagMAIN
    /\ Int32OfBytes(SubSeq(b, 13, 16)) = 0

\* C13: once Parse is done with the header, the parse goes on or succeeds
\* only if the input starts with "VOX ", the version 150 and a root chunk
\* with the tag "MAIN" and no content; otherwise Parse has returned without
\* a Document and no child chunk was decoded.
C13_HeaderChecked ==
    (vr # NilPtr /\ ~HeaderGood(Input)) =>
        /\ result \notin {"running", "ok"}
        /\ err # Nil
        /\ doc = NilPtr
        /\ file = <<>> /\ skipped = {} /\ logged = <<>>
        /\ models = <<>> /\ sceneIDs = EmptyMap /\ layerIDs = EmptyMap

C13_Witness ==
    /\ vr # NilPtr
    /\ Len(Input) >= 8
    /\ SubSeq(Input, 1, 4) = StrVOX
    /\ Int32OfBytes(SubSeq(Input, 5, 8)) # version
    /\ result = "error"

\* C14: Parse ends in one of two ways, a Document and no error, or no
\* Document and an error: it never ends in a panic.
C14_DocumentOrError ==
    /\ result \in {"start", "running", "ok", "error"}
    /\ result = "ok" => (doc # NilPtr /\ err = Nil)
    /\ result = "error" => (doc = NilPtr /\ err # Nil)

\* C15: a PACK chunk that was read past is the first recognized chunk of the
\* file, and so the only PACK chunk: a PACK chunk after any other recognized
\* chunk ends the parse with an error.
C15_PackFirst == \A i \in 1..Len(file) : file[i].id = TagPACK => i = 1

C15_Witness ==
    /\ result = "error"
    /\ err = "PACK chunk must appear first in MAIN"

\* What the steps of C16 do: a SIZE chunk read past sets the size, an XYZI
\* chunk read past adds the model, and the end of the input keeps the models.
C16_Steps ==
    /\ \A sz \in ModelSizes :
          (result = "running" /\ Step(Decode(FileSIZE(sz))) /\ result' = "running")
             => (size' = sz /\ models' = models)
    /\ \A vs \in ModelVoxels :
          (result = "running" /\ Step(Decode(FileXYZI(vs))) /\ result' = "running")
             => models' = Append(models, [X |-> size[1], Y |-> size[2],
                                          Z |-> size[3], V |-> vs])
    /\ (result = "running" /\ result' = "ok") => models' = models

\* C16: every SIZE chunk read past is directly followed by an XYZI chunk
\* (or is the last chunk of a parse that goes on), and every XYZI chunk
\* directly follows a SIZE chunk; a SIZE chunk sets the size to its three
\* numbers, and the XYZI chunk after it adds one model of this size with
\* its voxels, after the models there are.
C16_SizeThenXYZI ==
    /\ [](\A i \in 1..Len(file) :
            /\ file[i].id = TagSIZE =>
                   (IF i = Len(file) THEN result = "running"
                    ELSE file[i + 1].id = TagXYZI)
            /\ file[i].id = TagXYZI => (i > 1 /\ file[i - 1].id = TagSIZE))
    /\ [](result \in {"running", "ok"} => Len(models) = Count({TagXYZI}))
    /\ [][C16_Steps]_vars

C16_Witness ==
    /\ result = "ok"
    /\ Len(models) = 2
    /\ <<models[1].X, models[1].Y, models[1].Z>> = <<1, 2, 3>>
    /\ <<models[2].X, models[2].Y, models[2].Z>> = <<30, 20, 10>>
    /\ models[1].V # models[2].V

\* C17: a parse of a file with a PACK chunk succeeds only if the number of
\* models parsed is the count the PACK chunk declared.
C17_PackCountMet ==
    (result = "ok" /\ Count({TagPACK}) = 1) => Len(models) = pack

\* The scene chunks well formed: the ones of the files of the scene graphs.
SceneStartReads == SceneTRNReads \cup SceneGRPReads \cup SceneSHPReads

\* C18: when the model chunks have ended (every SIZE has its XYZI, there is
\* a model, the count of a PACK chunk is met) and no later chunk was read,
\* a scene chunk of any of the three kinds is not misplaced.
C18_SceneStartsWithAnyKind ==
    [][\A d \in SceneStartReads :
          (/\ result = "running"
           /\ models # <<>>
           /\ Count({TagSIZE}) = Count({TagXYZI})
           /\ Count({TagLAYR, TagRGBA, TagMATL}) = 0
           /\ (pack = -1 \/ pack = Len(models))
           /\ Step(d))
          => err' \notin {"misplaced nTRN chunk", "misplaced nGRP chunk",
                          "misplaced nSHP chunk"}]_vars

\* C19: the scene chunks read past have different ids, whatever their
\* kinds, and so have the LAYR chunks read past: a chunk with the id of an
\* earlier one ends the parse with an error.
C19_UniqueIDs ==
    result \in {"running", "ok"} =>
        /\ Cardinality(DOMAIN sceneIDs) = Count(SceneTags)
        /\ Cardinality(DOMAIN layerIDs) = Count({TagLAYR})

C19_Witness ==
    /\ result = "error"
    /\ err \in {"node appears twice", "two LAYR chunks have the same id"}

\* C20: an nTRN chunk whose reserved field is not -1 or whose frame count
\* is not 1, and a LAYR chunk whose reserved field is not -1, end the parse
\* with an error.
C20_ReservedAndFrames ==
    [][\A d \in ReservedReads : (result = "running" /\ Step(d)) => result' = "error"]_vars

C20_Witness ==
    /\ result = "error"
    /\ err \in {"reserved field in nTRN must be -1", "must have one frame in nTRN chunk",
                 "reserved field in LAYR chunk must be -1"}
\* The shape nodes read so far.
Shapes == {id \in DOMAIN sceneIDs : sceneIDs[id].kind = "Shape"}

ModelRefs(id) == {sceneIDs[id].Models[i] : i \in 1..Len(sceneIDs[id].Models)}

\* What the steps of C21 do: an nSHP chunk with a model id that is no index
\* of a model parsed so far ends the parse with an error, and once a shape
\* is recorded the models change no more while the parse goes on.
C21_Steps ==
    /\ \A ms \in ModelSHPLists :
          (/\ result = "running"
           /\ Step(Decode(FileSHP(ms)))
           /\ \E i \in 1..Len(ms) : ms[i] < 0 \/ ms[i] >= Len(models))
             => (result' = "error" /\ doc' = NilPtr)
    /\ (Shapes # {} /\ result' \in {"running", "ok"}) => models' = models

\* C21: every model id of an nSHP chunk read past is the index of a model
\* parsed before the chunk, a chunk with another id makes the parse fail,
\* and in a parse that succeeded the ids of every shape are indexes of the
\* models of the Document.
C21_ShapeModelsExist ==
    /\ [](result \in {"running", "ok"} =>
            \A id \in Shapes : ModelRefs(id) \subseteq 0..(Len(models) - 1))
    /\ [](result = "ok" =>
            /\ doc[1].Models = models
            /\ \A id \in Shapes : ModelRefs(id) \subseteq 0..(Len(doc[1].Models) - 1))
    /\ [][C21_Steps]_vars

C21_Witness ==
    /\ result = "ok"
    /\ \E id \in Shapes : sceneIDs[id].Models = <<0, 1>>

\* What the steps of C22 do: a chunk of an unrecognized tag is read past
\* and the parse goes on with everything it has gathered as it was.
C22_Steps ==
    \A d \in SkipReads :
        (result = "running" /\ Step(d)) =>
            /\ result' = "running"
            /\ skipped' = skipped \cup {[id |-> d.ch.ID, n |-> Len(d.ch.contents),
                                         m |-> Len(d.ch.childContents)]}
            /\ UNCHANGED <<err, doc, file, state, pack, models, size, rgba, mats,
                           sceneIDs, sceneChildren, sceneLayer, layerIDs>>

\* C22: a chunk of an unrecognized tag is read past wherever it stands among
\* the chunks of MAIN, the ordering state, the models, the scene nodes with
\* their children and layers, the layers, the palette and the materials stay
\* as they are, and no tag is in the notices more than once.
C22_UnknownSkipped ==
    /\ [](\A i, j \in 1..Len(logged) : logged[i] = logged[j] => i = j)
    /\ [][C22_Steps]_vars

C22_Witness ==
    /\ result = "ok"
    /\ Cardinality({h \in skipped : h.id = TagIMAP}) = 2
    /\ logged = <<TagIMAP>>

\* The keys parseMatlChunk reads and the types parseMatType knows.
RecognizedKeys ==
    {KeyType, KeyWeight, KeyRough, KeySpec, KeyIor, KeyAtt, KeyFlux, KeyPlastic, KeyLdr}

MatTypes == {StrDiffuse, StrMetal, StrGlass, StrEmit}

Keys(ps) == {ps[i][1] : i \in 1..Len(ps)}

\* The value the dict of the pairs ps has for the key k: the last one.
LastValue(ps, k) ==
    LET at == {i \in 1..Len(ps) : ps[i][1] = k}
    IN  ps[CHOOSE i \in at : \A j \in at : j <= i][2]

FloatsParse(ps) ==
    \A i \in 1..Len(ps) :
        ps[i][1] \in RecognizedKeys \ {KeyType} => ParseFloat(ps[i][2]).ok

\* What the steps of C23 do on the MATL chunk c.
C23_Step(c) ==
    (result = "running" /\ Step(c.d)) =>
        /\ result' = "running" =>
              /\ c.id \in 0..255
              /\ Keys(c.ps) \subseteq RecognizedKeys
              /\ KeyType \in Keys(c.ps)
              /\ LastValue(c.ps, KeyType) \in MatTypes
        /\ ~(Keys(c.ps) \subseteq RecognizedKeys) => result' = "error"
        /\ (/\ state = stateMatt
            /\ c.id \in 0..255
            /\ FloatsParse(c.ps)
            /\ ~(Keys(c.ps) \subseteq RecognizedKeys))
              => err' = "dict error -- unknown field"
        /\ (/\ state = stateMatt
            /\ c.id \in 0..255
            /\ FloatsParse(c.ps)
            /\ Keys(c.ps) \subseteq RecognizedKeys
            /\ KeyType \notin Keys(c.ps))
              => err' = "error reading MATL chunk: unknown material "
                           \o ToString(StrMissing)

\* C23: a MATL chunk is read past only if its id is in 0..255, every key of
\* its dictionary is one of the nine keys and _type is there with one of
\* the four types; a key that is none of the nine ends the parse with an
\* error, the error "unknown field" when the chunk has no other fault, and
\* a dictionary without _type ends it with the error of the unknown
\* material "<missing>".
C23_MaterialChecked == [][\A c \in MaterialCases : C23_Step(c)]_vars

C23_Witness ==
    /\ result = "error"
    /\ err = "error reading MATL chunk: unknown material " \o ToString(StrMissing)

\* Every row and every column of the matrix M has exactly one entry that is
\* not 0, and this entry is +1 or -1.
SignedPermutation(M) ==
    /\ \A i \in 0..2 : Cardinality({j \in 0..2 : M[i][j] # 0}) = 1
    /\ \A j \in 0..2 : Cardinality({i \in 0..2 : M[i][j] # 0}) = 1
    /\ \A i \in 0..2, j \in 0..2 : M[i][j] \in {-1, 0, 1}

ValidCodes == {m \in Codes : Valid(m)}

\* Mul on the codes 0..127 as a table, MulTable[a][b] = a.Mul(b); @@ with
\* the empty function leaves a function as it is and has TLC keep its values.
MulTable == [a \in Codes |-> [b \in Codes |-> Mul(a, b)] @@ <<>>] @@ <<>>

\* C24: 48 of the 128 codes 0..127 are valid, and Valid returns true on a
\* code of 0..127 exactly when the matrix Get decodes from it is a signed
\* permutation matrix.
C24_ValidIsSignedPermutation ==
    (call.op = "Valid" /\ call.m \in Codes) =>
        /\ call.r <=> SignedPermutation(matFromMatrix3x3(call.m))
        /\ Cardinality(ValidCodes) = 48

C24_Witness == call.op = "Valid" /\ call.m \in Codes /\ call.r /\ Bit(call.m, 6) = 1

\* C25: the product Mul returns for two valid codes is a valid code, the
\* matrix decoded from it is the matrix product of the matrices decoded
\* from the two codes, and it is the code matToMatrix3x3 gives this product.
C25_MulIsProduct ==
    (call.op = "Mul" /\ Valid(call.a) /\ Valid(call.b)) =>
        /\ Valid(call.r)
        /\ matFromMatrix3x3(call.r)
              = mul(matFromMatrix3x3(call.a), matFromMatrix3x3(call.b))
        /\ call.r = matToMatrix3x3(mul(matFromMatrix3x3(call.a),
                                       matFromMatrix3x3(call.b)))

C25_Witness ==
    /\ call.op = "Mul" /\ Valid(call.a) /\ Valid(call.b)
    /\ call.r \notin {call.a, call.b, Matrix3x3Identity}

\* C26: the inverse of a valid code is a valid code, its products with the
\* code on both sides are the identity 0x04, the inverse of the identity is
\* the identity, and the identity times the identity is the identity.
C26_InverseIsInverse ==
    /\ (call.op = "Inverse" /\ call.m \in Codes /\ Valid(call.m)) =>
          /\ Valid(call.r)
          /\ Mul(call.m, call.r) = 4
          /\ Mul(call.r, call.m) = 4
          /\ call.m = Matrix3x3Identity => call.r = Matrix3x3Identity
    /\ (call.op = "Mul" /\ call.a = Matrix3x3Identity /\ call.b = Matrix3x3Identity) =>
          call.r = Matrix3x3Identity

C26_Witness ==
    call.op = "Inverse" /\ call.m \in Codes /\ Valid(call.m) /\ call.r # call.m

\* C27: for a valid code a, the products of a with the 48 valid codes are
\* the 48 valid codes: as many products as codes, so each valid code is the
\* product with one code only, and the product with b is one of them.
C27_MulIsBijection ==
    (call.op = "Mul" /\ Valid(call.a) /\ Valid(call.b)) =>
        LET products == {MulTable[call.a][b] : b \in ValidCodes}
        IN  /\ products = ValidCodes
            /\ Cardinality(products) = 48
            /\ call.r \in products

C27_Witness ==
    /\ call.op = "Mul" /\ Valid(call.a) /\ Valid(call.b)
    /\ call.a # Matrix3x3Identity
    /\ call.r = Matrix3x3Identity

\* C28: Mul is associative on the valid codes: the product of a and b
\* times c is a times the product of b and c.
C28_MulIsAssociative ==
    (call.op = "Mul" /\ Valid(call.a) /\ Valid(call.b)) =>
        \A c \in ValidCodes :
            MulTable[call.r][c] = MulTable[call.a][MulTable[call.b][c]]

C28_Witness ==
    /\ call.op = "Mul" /\ Valid(call.a) /\ Valid(call.b)
    /\ call.r # Mul(call.b, call.a)

\* C29: MulVec of a valid code and a vector is the product of the matrix
\* decoded from the code with the vector, and its components are the
\* components of the vector in some order, each with any sign.
C29_MulVecIsProduct ==
    call.op = "MulVec" =>
        /\ call.r = mulVec(matFromMatrix3x3(call.m), call.x)
        /\ vecSeemsPlausible(call.x, call.r)

C29_Witness ==
    /\ call.op = "MulVec"
    /\ call.x[0] = 0 /\ call.x[1] = 1 /\ call.x[2] = 2
    /\ call.r[0] = -2 /\ call.r[1] = 0 /\ call.r[2] = -1

\* C30: the matrix Get decodes from a valid code encodes to this code
\* again, and the products of the code with the identity on both sides are
\* the code.
C30_RoundTrip ==
    (call.op = "Get" /\ call.m \in Codes /\ Valid(call.m)) =>
        /\ matToMatrix3x3(call.r) = call.m
        /\ Mul(Matrix3x3Identity, call.m) = call.m
        /\ Mul(call.m, Matrix3x3Identity) = call.m

C30_Witness ==
    /\ call.op = "Get" /\ call.m \in Codes /\ Valid(call.m)
    /\ call.m # Matrix3x3Identity
    /\ call.r[1][0] = -1

(***************************************************************************)
(* The reader: the latched error.                                          *)
(***************************************************************************)
\* What a read returns on a reader with the error e latched.
ReadDefault(c) ==
    CASE c.op = "ReadBytes" -> Zeros(c.n)
      [] c.op = "ReadUint8" -> 0
      [] c.op = "ReadInt32" -> 0
      [] c.op = "ReadString" -> <<>>
      [] c.op = "ReadDict" -> [d |-> EmptyMap, read |-> {}, err |-> c.before.err]

ReadOps == {"ReadBytes", "ReadUint8", "ReadInt32", "ReadString", "ReadDict"}

\* The bytes of the reader r not yet consumed.
Remaining(r) == SubSeq(r.buf, r.pos + 1, Len(r.buf))

\* C36: a read on a reader that holds an error (ReadBytes of a count that is
\* not negative, ReadUint8, ReadInt32, ReadString, ReadDict) returns the zero
\* value of its type, consumes nothing and leaves the error as it was, so the
\* error held is the first one for good; Error() returns it and changes
\* nothing.
C36_ErrorLatched ==
    /\ (call.op \in ReadOps /\ call.before.err # Nil
           /\ (call.op = "ReadBytes" => call.n >= 0)) =>
          /\ vr[1] = call.before
          /\ call.r = ReadDefault(call)
    /\ call.op = "Error" =>
          /\ vr[1] = call.before
          /\ call.r = call.before.err

C36_Witness ==
    /\ call.op = "ReadDict"
    /\ call.before.err = ErrUnexpectedEOF
    /\ call.before.pos = Len(call.before.buf)
    /\ call.before.pos > 0

\* C37: ReadBytes(n) on a reader without an error returns the next n bytes
\* when n bytes remain; when fewer remain it latches an error and returns n
\* zero bytes.
C37_ShortReadZeroFilled ==
    (call.op = "ReadBytes" /\ call.before.err = Nil /\ call.n >= 0) =>
        IF Len(Remaining(call.before)) >= call.n
        THEN /\ call.r = SubSeq(Remaining(call.before), 1, call.n)
             /\ vr[1].err = Nil
             /\ vr[1].pos = call.before.pos + call.n
        ELSE /\ vr[1].err # Nil
             /\ Len(call.r) = call.n
             /\ call.r = Zeros(call.n)

\* C38: after RequireEOF the reader holds no error exactly when it held none
\* before and no byte remained; when a byte remained it holds an error; an
\* error held before, io.EOF included, is kept.
C38_RequireEOF ==
    call.op = "RequireEOF" =>
        /\ vr[1].err = Nil <=>
              (call.before.err = Nil /\ Remaining(call.before) = <<>>)
        /\ (call.before.err = Nil /\ Remaining(call.before) # <<>>) =>
              vr[1].err = "expected EOF, but found at least one more byte"
        /\ call.before.err # Nil => vr[1] = call.before

C38_Witness ==
    /\ call.op = "RequireEOF"
    /\ call.before.err = EOF
    /\ vr[1].err = EOF

(***************************************************************************)
(* buildScene: the order of the map ranges.                                *)
(***************************************************************************)
\* buildScene on the maps of the state, the three ranges run in the orders o.
BuiltIn(o) ==
    buildScene(o[1], o[2], o[3], sceneIDs, sceneChildren, sceneLayer, layerIDs)

\* The ranges run in ascending key order.
KeyOrder ==
    <<SortedSeq(DOMAIN sceneIDs), SortedSeq(DOMAIN sceneChildren), SortedSeq(DOMAIN layerIDs)>>

\* C39: for the maps parseMainChunks has filled, buildScene fails in every
\* order of the three map ranges or succeeds in every order, and when it
\* succeeds the root, the links of every node and the layers (ascending by
\* Index) are the same in every order.
C39_OrderIndependent ==
    result = "running" =>
        \A o \in RangeOrders(DOMAIN sceneIDs) \X RangeOrders(DOMAIN sceneChildren)
                   \X RangeOrders(DOMAIN layerIDs) :
            LET Same(a, b) ==
                    /\ a.err = Nil <=> b.err = Nil
                    /\ a.err = Nil =>
                          /\ a.scene = b.scene
                          /\ a.nodes = b.nodes
                          /\ \A i \in 1..(Len(a.scene.Layers) - 1) :
                                a.scene.Layers[i].Index < a.scene.Layers[i + 1].Index
            IN  Same(BuiltIn(o), BuiltIn(KeyOrder))

C39_Witness ==
    /\ result = "running"
    /\ Cardinality(DOMAIN layerIDs) >= 2
    /\ Cardinality(DOMAIN sceneChildren) >= 2
    /\ Cardinality(DOMAIN sceneIDs) >= 3
    /\ BuiltIn(KeyOrder).err = Nil

(***************************************************************************)
(* The dense world made from a model.                                      *)
(***************************************************************************)
\* The matrix of the code R times the vector v.
Rotated(R, v) == mulVec(matFromMatrix3x3(R), v)

\* The sizes of m are positive and every voxel of m is inside of them.
VoxelsInside(m) ==
    /\ m.X > 0 /\ m.Y > 0 /\ m.Z > 0
    /\ \A k \in 1..Len(m.V) : m.V[k].X < m.X /\ m.V[k].Y < m.Y /\ m.V[k].Z < m.Z

\* No two voxels of m are at one position.
VoxelsDistinct(m) ==
    \A j \in 1..Len(m.V), k \in 1..Len(m.V) :
        (m.V[j].X = m.V[k].X /\ m.V[j].Y = m.V[k].Y /\ m.V[j].Z = m.V[k].Z) => j = k

\* e: |R * size| - 1 on every axis.
Extent(R, m) ==
    LET sized == Rotated(R, Vec3(m.X, m.Y, m.Z)) IN [i \in 0..2 |-> abs(sized[i]) - 1]

\* The smallest value on every axis among the eight rotated corners of m.
SmallestCorner(R, m) ==
    LET rotated == {Rotated(R, Vec3(c[1] * (m.X - 1), c[2] * (m.Y - 1), c[3] * (m.Z - 1))) :
                       c \in {0, 1} \X {0, 1} \X {0, 1}}
    IN  [i \in 0..2 |-> CHOOSE x \in {r[i] : r \in rotated} : \A r \in rotated : x <= r[i]]

\* The cell the voxel v of m goes to: R * v + (Min - minCorner).
CellOf(tf, m, v) ==
    LET e == Extent(tf.R, m)
        corner == SmallestCorner(tf.R, m)
        rv == Rotated(tf.R, Vec3(v.X, v.Y, v.Z))
    IN  [i \in 0..2 |-> rv[i] + (tf.T[i] - (e[i] \div 2)) - corner[i]]

\* The cells of the world d.
Cells(d) ==
    {Vec3(c[1], c[2], c[3]) :
        c \in (d.Min[0]..d.Max[0]) \X (d.Min[1]..d.Max[1]) \X (d.Min[2]..d.Max[2])}

\* The world d has the bounds of e and T, and every voxel of m has a cell in it.
BoundsOf(d, tf, m) ==
    LET e == Extent(tf.R, m) IN
    /\ \A i \in 0..2 : /\ d.Min[i] = tf.T[i] - (e[i] \div 2)
                        /\ d.Max[i] = e[i] - (e[i] \div 2) + tf.T[i]
    /\ Len(d.Voxels) = (e[0] + 1) * (e[1] + 1) * (e[2] + 1)
    /\ \A k \in 1..Len(m.V) : CellOf(tf, m, m.V[k]) \in Cells(d)

\* A call of DenseWorldFromModel on a valid rotation and a model with its
\* voxels inside.
MadeFromModel ==
    call.op = "DenseWorldFromModel" /\ Valid(call.tf.R) /\ VoxelsInside(call.m)

\* C31, with the last voxel of a cell: on a valid rotation and a model with positive
\* sizes and its voxels inside, DenseWorldFromModel returns the world with
\* Min = -floor(e/2) + T and Max = e - floor(e/2) + T for e = |R*size| - 1;
\* every voxel has a cell in it, a cell holds the color index of the last
\* voxel of the list that goes to it, and a cell no voxel goes to holds 0.
C31_Materialized ==
    MadeFromModel =>
        /\ call.err = Nil
        /\ dw # NilPtr
        /\ BoundsOf(dw[1], call.tf, call.m)
        /\ \A c \in Cells(dw[1]) :
              LET at == {k \in 1..Len(call.m.V) : CellOf(call.tf, call.m, call.m.V[k]) = c}
                  last == CHOOSE k \in at : \A j \in at : j <= k
              IN  MaterialIndex(dw[1], c).v = IF at = {} THEN 0 ELSE call.m.V[last].ColorIndex

C31_Witness ==
    /\ MadeFromModel
    /\ call.tf.R # Matrix3x3Identity
    /\ call.tf.T[1] = 600
    /\ Len(call.m.V) = 2
    /\ ~VoxelsDistinct(call.m)
    /\ dw # NilPtr
    /\ dw[1].Min[0] < dw[1].Max[0]

\* C31, as the specification has it: the cell of every voxel holds the color index
\* of that voxel, and every other cell holds 0.
C31_EveryVoxelHeld ==
    MadeFromModel =>
        /\ call.err = Nil
        /\ dw # NilPtr
        /\ BoundsOf(dw[1], call.tf, call.m)
        /\ \A k \in 1..Len(call.m.V) :
              MaterialIndex(dw[1], CellOf(call.tf, call.m, call.m.V[k])).v
                  = call.m.V[k].ColorIndex
        /\ \A c \in Cells(dw[1]) :
              (\A k \in 1..Len(call.m.V) : CellOf(call.tf, call.m, call.m.V[k]) # c)
                  => MaterialIndex(dw[1], c).v = 0

\* The cells of d that are not 0.
NonZeroCells(d) == Cardinality({i \in 1..Len(d.Voxels) : d.Voxels[i] # 0})

C33_DegenerateCuboid ==
    /\ call.op = "NewDenseWorld" =>
          IF \E i \in 0..2 : call.max[i] < call.min[i]
          THEN call.err = ErrCuboid /\ dw = NilPtr
          ELSE /\ call.err = Nil
               /\ dw # NilPtr
               /\ dw[1].Min = call.min
               /\ dw[1].Max = call.max
               /\ Len(dw[1].Voxels)
                     = (call.max[0] - call.min[0] + 1) * (call.max[1] - call.min[1] + 1)
                         * (call.max[2] - call.min[2] + 1)
               /\ \A i \in 1..Len(dw[1].Voxels) : dw[1].Voxels[i] = 0
    /\ (call.op = "DenseWorldFromModel"
           /\ \E i \in 0..2 : Extent(call.tf.R, call.m)[i] < 0) =>
          call.err = ErrCuboid /\ dw = NilPtr
    /\ (call.op = "DenseWorldFromModel" /\ Valid(call.tf.R)
           /\ (call.m.X = 0 \/ call.m.Y = 0 \/ call.m.Z = 0)) =>
          call.err = ErrCuboid /\ dw = NilPtr

C33_Witness ==
    /\ call.op = "NewDenseWorld"
    /\ call.max[2] < call.min[2]
    /\ call.max[0] >= call.min[0]
    /\ call.max[1] > call.min[1]
    /\ call.err = ErrCuboid
    /\ dw = NilPtr

\* C40: DenseWorldFromModel on (R, T) fails when it fails on (R, 0), and
\* else returns the world of (R, 0) with Min and Max moved by T and the same
\* voxels.
C40_TranslationEquivariant ==
    call.op = "DenseWorldFromModel" =>
        LET Moved(zero) ==
                /\ call.err = Nil <=> zero.err = Nil
                /\ dw = NilPtr <=> zero.dw = NilPtr
                /\ dw # NilPtr =>
                      /\ \A i \in 0..2 :
                            /\ dw[1].Min[i] = zero.dw[1].Min[i] + call.tf.T[i]
                            /\ dw[1].Max[i] = zero.dw[1].Max[i] + call.tf.T[i]
                      /\ dw[1].Voxels = zero.dw[1].Voxels
        IN  Moved(DenseWorldFromModel([R |-> call.tf.R, T |-> Vec3(0, 0, 0)], call.m))

C40_Witness ==
    /\ MadeFromModel
    /\ call.tf.R # Matrix3x3Identity
    /\ call.tf.T[0] = 0 - 500 /\ call.tf.T[1] = 600 /\ call.tf.T[2] = 0 - 700
    /\ dw # NilPtr
    /\ dw[1].Min[1] > 500
    /\ NonZeroCells(dw[1]) = 2

(***************************************************************************)
(* The cells of a dense world.                                             *)
(***************************************************************************)
\* Min <= c <= Max on every axis.
InCuboid(d, c) == \A i \in 0..2 : d.Min[i] <= c[i] /\ c[i] <= d.Max[i]

\* z*(SX*SY) + y*SX + x of the coordinates of c from Min.
FlatIndex(d, c) ==
    (c[2] - d.Min[2]) * ((d.Max[0] - d.Min[0] + 1) * (d.Max[1] - d.Min[1] + 1))
      + (c[1] - d.Min[1]) * (d.Max[0] - d.Min[0] + 1) + (c[0] - d.Min[0])

\* The value of the cell c of d.
CellValue(d, c) == d.Voxels[FlatIndex(d, c) + 1]

\* C34: MaterialIndex(c) reports ok exactly for Min <= c <= Max and then
\* returns the element z*(SX*SY) + y*SX + x of Voxels; the cells of the
\* world have indices of their own inside of Voxels; SetMaterialIndex on a
\* coordinate in the cuboid returns true and changes that one element, so
\* that MaterialIndex returns the value set there last (0 in a new world),
\* and on a coordinate outside it returns false and changes nothing.
C34_CellsAddressed ==
    /\ dw # NilPtr =>
          \A c \in Cells(dw[1]) :
              /\ FlatIndex(dw[1], c) \in 0..(Len(dw[1].Voxels) - 1)
              /\ \A c2 \in Cells(dw[1]) :
                    FlatIndex(dw[1], c) = FlatIndex(dw[1], c2) => c = c2
    /\ call.op = "MaterialIndex" =>
          /\ call.ok <=> InCuboid(call.before, call.c)
          /\ call.v = IF call.ok THEN CellValue(call.before, call.c) ELSE 0
          /\ dw[1] = call.before
    /\ call.op = "SetMaterialIndex" =>
          /\ call.ok <=> InCuboid(call.before, call.c)
          /\ call.ok =>
                /\ dw[1].Min = call.before.Min /\ dw[1].Max = call.before.Max
                /\ Len(dw[1].Voxels) = Len(call.before.Voxels)
                /\ MaterialIndex(dw[1], call.c) = [v |-> call.matIdx, ok |-> TRUE]
                /\ \A i \in 1..Len(dw[1].Voxels) :
                      i # FlatIndex(call.before, call.c) + 1
                          => dw[1].Voxels[i] = call.before.Voxels[i]
          /\ ~call.ok => dw[1] = call.before

C34_Witness ==
    /\ call.op = "SetMaterialIndex"
    /\ call.ok
    /\ call.matIdx = 255
    /\ CellValue(call.before, call.c) = 1
    /\ call.c[1] = 2
    /\ call.c[2] = 1
    /\ \E c \in Cells(dw[1]) : c # call.c /\ CellValue(dw[1], c) = 1

\* C35: Resize to the bounds the world has changes nothing; Resize with
\* max < min on some axis returns an error and changes nothing; any other
\* Resize returns no error and leaves a world of the new bounds in which a
\* cell holds the value it had when it was a cell of the old cuboid, and 0
\* when it was not.
C35_ResizeCopies ==
    call.op = "Resize" =>
        IF call.min = call.before.Min /\ call.max = call.before.Max
        THEN call.err = Nil /\ dw[1] = call.before
        ELSE IF \E i \in 0..2 : call.max[i] < call.min[i]
        THEN call.err = ErrCuboid /\ dw[1] = call.before
        ELSE /\ call.err = Nil
             /\ dw[1].Min = call.min
             /\ dw[1].Max = call.max
             /\ Len(dw[1].Voxels) = Cardinality(Cells(dw[1]))
             /\ \A c \in Cells(dw[1]) :
                   CellValue(dw[1], c)
                       = IF InCuboid(call.before, c) THEN CellValue(call.before, c) ELSE 0

C35_Witness ==
    /\ call.op = "Resize"
    /\ call.err = Nil
    /\ \E c \in Cells(dw[1]) : ~InCuboid(call.before, c)
    /\ \E c \in Cells(call.before) : ~InCuboid(dw[1], c) /\ CellValue(call.before, c) # 0
    /\ \E c \in Cells(dw[1]) :
          /\ InCuboid(call.before, c)
          /\ CellValue(dw[1], c) = 255
          /\ FlatIndex(dw[1], c) # FlatIndex(call.before, c)

====
